---- MODULE Spec2Model ----
(***************************************************************************)
(* Model of the multi-pass expansion pipeline of                           *)
(* server/services/universalExpansion.ts: instruction parsing with its     *)
(* process-wide cache, structure building, the continuation loop of        *)
(* generateSection, the section loop of universalExpand with the max-words *)
(* ceiling, the delta audit, the stitch pass and the assembler.            *)
(*                                                                         *)
(* Text is a sequence of tokens.  A token is a word or the line break      *)
(* "\n"; words of one line are separated by single blanks, which are not   *)
(* represented.  One word of the model is one word of the program, so all  *)
(* word counts are on the program's scale, only small.                     *)
(***************************************************************************)
EXTENDS Integers, Sequences, FiniteSets, TLC

Null == "null"

\* null or undefined where the program holds a number
NoNumber == 0 - 1

NL == "\n"

-----------------------------------------------------------------------------
(* Bounds of the model                                                     *)

\* request.targetWordCount is drawn from 0 .. MaxTarget (0: not given)
MaxTarget == 2

\* request.maxWords is drawn from 0 .. MaxCeiling (0: no ceiling)
MaxCeiling == 2

\* the stitch response lists at most MaxRepairs repair entries
MaxRepairs == 2

\* parseExpansionInstructions is called at most MaxParseCalls times
MaxParseCalls == 3

\* a large request target is drawn from 50000 .. 50000 + MaxLargeExtra
MaxLargeExtra == 3

\* a large source text is cut into at most MaxChunks chunks
MaxChunks == 3

-----------------------------------------------------------------------------
(* Text helpers: String.prototype.trim, split, the two word counts         *)

RECURSIVE TrimLeft(_)
TrimLeft(s) ==
    IF s # <<>> /\ Head(s) = NL THEN TrimLeft(Tail(s)) ELSE s

RECURSIVE TrimRight(_)
TrimRight(s) ==
    IF s # <<>> /\ s[Len(s)] = NL THEN TrimRight(SubSeq(s, 1, Len(s) - 1)) ELSE s

\* s.trim()
Trim(s) == TrimRight(TrimLeft(s))

\* the words of s: s.trim().split(/\s+/).filter(w => w)
Words(s) == SelectSeq(s, LAMBDA t : t # NL)

\* s.trim().split(/\s+/).filter(w => w).length
countWordsFiltered(s) == Len(Words(s))

\* s.trim().split(/\s+/).length: splitting the empty string yields [""]
countWordsSplit(s) == IF Words(s) = <<>> THEN 1 ELSE Len(Words(s))

\* s.split('\n')
RECURSIVE SplitLines(_)
SplitLines(s) ==
    IF \A k \in 1..Len(s) : s[k] # NL
    THEN <<s>>
    ELSE LET k == CHOOSE j \in 1..Len(s) :
                      s[j] = NL /\ \A m \in 1..(j - 1) : s[m] # NL
         IN  <<SubSeq(s, 1, k - 1)>> \o SplitLines(SubSeq(s, k + 1, Len(s)))

\* lines.join('\n')
RECURSIVE JoinLines(_)
JoinLines(ls) ==
    IF ls = <<>> THEN <<>>
    ELSE IF Len(ls) = 1 THEN ls[1]
    ELSE ls[1] \o <<NL>> \o JoinLines(Tail(ls))

\* s.replace(/\n{3,}/g, '\n\n')
\* a line break that two more line breaks follow is dropped
CollapseBreaks(s) ==
    LET third(k) == k + 2 <= Len(s) /\ s[k] = NL /\ s[k + 1] = NL /\ s[k + 2] = NL
        kept == SelectSeq([k \in 1..Len(s) |-> k], LAMBDA k : ~ third(k))
    IN  [j \in 1..Len(kept) |-> s[kept[j]]]

\* a starts with b: a.startsWith(b)
StartsWith(a, b) == Len(b) <= Len(a) /\ SubSeq(a, 1, Len(b)) = b

\* positions at which p occurs in s
Occurrences(s, p) ==
    {k \in 1..(Len(s) - Len(p) + 1) : SubSeq(s, k, k + Len(p) - 1) = p}

\* s.includes(p)
Includes(s, p) == p = <<>> \/ Occurrences(s, p) # {}

Min(S) == CHOOSE m \in S : \A o \in S : m <= o

\* Math.round(a / b) for a >= 0, b > 0: halves round up
RoundDiv(a, b) == (2 * a + b) \div (2 * b)

-----------------------------------------------------------------------------
(* stripSkeletonMetadata                                                   *)

\* a name of the model, a sequence of words, as the string it stands for
RECURSIVE spell(_)
spell(name) ==
    IF name = <<>> THEN ""
    ELSE IF Len(name) = 1 THEN name[1]
    ELSE name[1] \o " " \o spell(Tail(name))

\* part occurs in str: str.includes(part), str.endsWith(part)
includesText(str, part) ==
    \E k \in 0..(Len(str) - Len(part)) : SubSeq(str, k + 1, k + Len(part)) = part

endsWith(str, part) ==
    /\ Len(part) <= Len(str)
    /\ SubSeq(str, Len(str) - Len(part) + 1, Len(str)) = part

lowerLetters == "abcdefghijklmnopqrstuvwxyz"
upperLetters == "ABCDEFGHIJKLMNOPQRSTUVWXYZ"

upperOf ==
    [c \in {SubSeq(lowerLetters, k, k) : k \in 1..Len(lowerLetters)} |->
        LET k == CHOOSE j \in 1..Len(lowerLetters) : SubSeq(lowerLetters, j, j) = c
        IN  SubSeq(upperLetters, k, k)]

\* str.toUpperCase()
RECURSIVE toUpperCase(_)
toUpperCase(str) ==
    IF Len(str) = 0 THEN ""
    ELSE LET c == SubSeq(str, 1, 1)
         IN  (IF c \in DOMAIN upperOf THEN upperOf[c] ELSE c)
                 \o toUpperCase(SubSeq(str, 2, Len(str)))

decimalDigits == "0123456789"

isDigit(c) == includesText(decimalDigits, c)

digitValue(c) == (CHOOSE k \in 1..10 : SubSeq(decimalDigits, k, k) = c) - 1

\* n.toString() for n >= 0
RECURSIVE toString(_)
toString(n) ==
    IF n < 10 THEN SubSeq(decimalDigits, n + 1, n + 1)
    ELSE toString(n \div 10) \o SubSeq(decimalDigits, (n % 10) + 1, (n % 10) + 1)

\* the longest run of digits that str starts with
RECURSIVE leadingDigits(_)
leadingDigits(str) ==
    IF Len(str) > 0 /\ isDigit(SubSeq(str, 1, 1))
    THEN SubSeq(str, 1, 1) \o leadingDigits(SubSeq(str, 2, Len(str)))
    ELSE ""

\* the number a run of digits spells; 0 for the empty run
RECURSIVE digitsValue(_)
digitsValue(run) ==
    IF Len(run) = 0 THEN 0
    ELSE 10 * digitsValue(SubSeq(run, 1, Len(run) - 1))
             + digitValue(SubSeq(run, Len(run), Len(run)))

RECURSIVE power10(_)
power10(n) == IF n = 0 THEN 1 ELSE 10 * power10(n - 1)

\* metadataPatterns.some(p => p.test(trimmed)): the line starts with a
\* leaked marker; the marker of the model is "KEY POINTS:"
isMetadata(line) == StartsWith(line, <<"KEY", "POINTS:">>)

\* wordCountInHeader: a heading "# title (N words)"; the position of the
\* annotation, 0 when the line is no such heading
headerMatch(line) ==
    LET at == {j \in 3..(Len(line) - 1) : line[j] = "(300" /\ line[j + 1] = "words)"}
    IN  IF Len(line) >= 4 /\ line[1] = "#" /\ at # {} THEN Min(at) ELSE 0

\* the for loop over lines, with its skipNextBlank flag
RECURSIVE cleanLines(_, _)
cleanLines(lines, skipNextBlank) ==
    IF lines = <<>> THEN <<>>
    ELSE LET line == Head(lines)
             rest == Tail(lines)
         IN  IF isMetadata(line) THEN cleanLines(rest, TRUE)
             ELSE IF skipNextBlank /\ line = <<>> THEN cleanLines(rest, FALSE)
             ELSE IF line = <<"---">> THEN cleanLines(rest, FALSE)
             ELSE IF headerMatch(line) > 0
                  THEN <<SubSeq(line, 1, headerMatch(line) - 1)>> \o cleanLines(rest, FALSE)
             ELSE <<line>> \o cleanLines(rest, FALSE)

stripSkeletonMetadata(text) ==
    Trim(CollapseBreaks(JoinLines(cleanLines(SplitLines(text), FALSE))))

\* extractKeyPoints keeps the sentences of more than 30 characters.  The
\* texts of the model hold no sentence punctuation and no claim verb: a text
\* is one sentence, which the first-three fallback keeps, cut to its first
\* 200 characters, when it is longer than 30 characters (a word and the
\* blank after it count for two characters)
extractKeyPoints(sectionContent, sectionName) ==
    LET words == Words(sectionContent)
    IN  IF 2 * Len(words) - 1 > 30
        THEN <<sectionName \o SubSeq(words, 1, Min({100, Len(words)}))>>
        ELSE <<>>

\* generateSectionSummary(content, name, 400): a text of at most 400 words
\* is its own summary
generateSectionSummary(sectionContent) == sectionContent

-----------------------------------------------------------------------------
(* Instruction text and parseExpansionInstructions                         *)
(*                                                                         *)
(* An instruction text is a sequence of clauses, each a line of the text:  *)
(*   "expand"   EXPAND TO <words> WORDS                                    *)
(*   "chapter"  CHAPTER <num> <title> (<words> words), or, with words = 0, *)
(*              CHAPTER <num> <title> without a word count                 *)
(*   "expandK"  EXPAND TO <tenths / 10>k WORDS, as in "EXPAND TO 2.5k WORDS"*)
(*   "text"     a word of other text                                       *)

Expand(n) == [kind |-> "expand", num |-> "", title |-> "", words |-> n]

ExpandK(tenths) == [kind |-> "expandK", num |-> "", title |-> "", words |-> tenths]

Text(word) == [kind |-> "text", num |-> "", title |-> word, words |-> 0]

Chapter(num, title, words) ==
    [kind |-> "chapter", num |-> num, title |-> title, words |-> words]

\* `CHAPTER ${chapterNum}: ${chapterTitle}`
chapterName(c) == <<"CHAPTER", c.num, c.title>>

\* a chapter declaration with a Roman numeral and a parenthesized word
\* count, "CHAPTER IV: Methods (2,000 words)": the numeral, the title and
\* the count as they are written
RomanChapter(numeral, title, count) ==
    [kind |-> "roman", num |-> numeral, title |-> title, words |-> 0, count |-> count]

\* NaN
NaN == NoNumber

\* str.replace(/,/g, '')
RECURSIVE withoutCommas(_)
withoutCommas(str) ==
    IF Len(str) = 0 THEN ""
    ELSE (IF SubSeq(str, 1, 1) = "," THEN "" ELSE SubSeq(str, 1, 1))
             \o withoutCommas(SubSeq(str, 2, Len(str)))

\* parseInt(str): the number of the leading digits
parseInt(str) ==
    IF leadingDigits(str) = "" THEN NaN ELSE digitsValue(leadingDigits(str))

\* the longest run of digits and points that str ends with: the group of
\* /([\d.]+)\s*k/i in a count that ends with k
RECURSIVE trailingNumber(_)
trailingNumber(str) ==
    IF Len(str) > 0 /\ (isDigit(SubSeq(str, Len(str), Len(str)))
                          \/ SubSeq(str, Len(str), Len(str)) = ".")
    THEN trailingNumber(SubSeq(str, 1, Len(str) - 1)) \o SubSeq(str, Len(str), Len(str))
    ELSE ""

\* Math.round(parseFloat(run) * 1000): the whole part, and the digits
\* that follow the first point
thousandTimes(run) ==
    LET whole == leadingDigits(run)
        rest == SubSeq(run, Len(whole) + 1, Len(run))
        fraction == IF Len(rest) > 0 /\ SubSeq(rest, 1, 1) = "."
                    THEN leadingDigits(SubSeq(rest, 2, Len(rest))) ELSE ""
    IN  IF whole = "" /\ fraction = "" THEN NaN
        ELSE 1000 * digitsValue(whole)
                 + RoundDiv(1000 * digitsValue(fraction), power10(Len(fraction)))

\* parseWordCountFromString: the shorthand with k, or the number with its
\* commas removed
parseWordCountFromString(str) ==
    LET last == SubSeq(str, Len(str), Len(str))
        run == trailingNumber(SubSeq(str, 1, Len(str) - 1))
    IN  IF last \in {"k", "K"} /\ run # ""
        THEN thousandTimes(run)
        ELSE parseInt(withoutCommas(str))

\* romanMap[c] || 0
romanMap(c) ==
    CASE c = "I" -> 1 [] c = "V" -> 5 [] c = "X" -> 10 [] c = "L" -> 50
      [] c = "C" -> 100 [] c = "D" -> 500 [] c = "M" -> 1000 [] OTHER -> 0

\* the for loop of romanToArabic over the first n letters
RECURSIVE romanSum(_, _)
romanSum(upper, n) ==
    IF n = 0 THEN 0
    ELSE LET current == romanMap(SubSeq(upper, n, n))
             next == IF n < Len(upper) THEN romanMap(SubSeq(upper, n + 1, n + 1)) ELSE 0
         IN  romanSum(upper, n - 1) + (IF current < next THEN 0 - current ELSE current)

\* romanToArabic
romanToArabic(roman) ==
    LET upper == toUpperCase(roman)
    IN  toString(romanSum(upper, Len(upper)))

\* name.trim().toUpperCase()
normalized(name) == toUpperCase(spell(name))

\* normalizedName.substring(0, Math.min(15, normalizedName.length))
first15(str) == SubSeq(str, 1, Min({15, Len(str)}))

\* a de-duplication that compares the first 15 characters of both names
addSection_samePrefix(struct, name, wordCount) ==
    IF \E k \in 1..Len(struct) :
           first15(normalized(struct[k].name)) = first15(normalized(name))
    THEN struct
    ELSE Append(struct, [name |-> name, wordCount |-> wordCount])

\* addSection: a section is added unless the upper-case name of an added
\* section includes the first 15 characters of its normalized name
addSection(struct, name, wordCount) ==
    IF \E k \in 1..Len(struct) :
           includesText(normalized(struct[k].name), first15(normalized(name)))
    THEN struct
    ELSE Append(struct, [name |-> name, wordCount |-> wordCount])

\* a declaration that carries a word count: a Roman one, or an Arabic one
counted(c) == c.kind = "roman" \/ (c.kind = "chapter" /\ c.words > 0)

\* the word count the patterns read from a declaration
declaredCount(c) ==
    IF c.kind = "roman" THEN parseWordCountFromString(c.count) ELSE c.words

\* romanChapterPatterns: `CHAPTER ${romanToArabic(numeral)}: ${title}`
romanSections(clauses) ==
    LET matches == SelectSeq(clauses, LAMBDA c : c.kind = "roman")
    IN  [k \in 1..Len(matches) |->
            [name |-> <<"CHAPTER", romanToArabic(matches[k].num) \o ":", matches[k].title>>,
             wordCount |-> declaredCount(matches[k])]]

\* chapterPatterns: the declarations with an Arabic number and a word count
chapterSections(clauses) ==
    LET matches == SelectSeq(clauses, LAMBDA c : c.kind = "chapter" /\ c.words > 0)
    IN  [k \in 1..Len(matches) |->
            [name |-> chapterName(matches[k]), wordCount |-> matches[k].words]]

\* sectionPatterns: the letters and blanks in front of a parenthesized
\* count, in upper case, unless they include CHAPTER; in a chapter
\* declaration these are the title
namedSections(clauses) ==
    LET matches == SelectSeq(clauses,
                             LAMBDA c : /\ counted(c)
                                        /\ ~ includesText(toUpperCase(c.title), "CHAPTER"))
    IN  [k \in 1..Len(matches) |->
            [name |-> <<toUpperCase(matches[k].title)>>,
             wordCount |-> declaredCount(matches[k])]]

\* the keys of abbreviationMap that abbreviationPattern can match, in the
\* order of its alternatives, and their full names
abbreviations ==
    <<[key |-> "INTRO", name |-> <<"INTRODUCTION">>],
      [key |-> "LIT REVIEW", name |-> <<"LITERATURE", "REVIEW">>],
      [key |-> "LITERATURE REV", name |-> <<"LITERATURE", "REVIEW">>],
      [key |-> "CONCL", name |-> <<"CONCLUSION">>],
      [key |-> "METH", name |-> <<"METHODOLOGY">>],
      [key |-> "DISCUSS", name |-> <<"DISCUSSION">>],
      [key |-> "RESULTS", name |-> <<"RESULTS">>],
      [key |-> "ABSTRACT", name |-> <<"ABSTRACT">>],
      [key |-> "ABS", name |-> <<"ABSTRACT">>]>>

\* the abbreviations that stand right in front of the parenthesized count
abbreviated(title) ==
    {k \in 1..Len(abbreviations) : endsWith(toUpperCase(title), abbreviations[k].key)}

\* abbreviationPattern: the full name of the abbreviation in front of a
\* parenthesized count
abbreviationSections(clauses) ==
    LET matches == SelectSeq(clauses,
                             LAMBDA c : counted(c) /\ abbreviated(c.title) # {})
    IN  [k \in 1..Len(matches) |->
            [name |-> abbreviations[Min(abbreviated(matches[k].title))].name,
             wordCount |-> declaredCount(matches[k])]]

\* the calls of addSection for the declarations that carry a word count,
\* in the order in which the passes make them
discovered(clauses) ==
    romanSections(clauses) \o chapterSections(clauses) \o namedSections(clauses)
        \o abbreviationSections(clauses)

\* the passes over the text: addSection for each discovered section
RECURSIVE addCounted(_, _)
addCounted(struct, found) ==
    IF found = <<>> THEN struct
    ELSE addCounted(addSection(struct, Head(found).name, Head(found).wordCount),
                    Tail(found))

\* chapterNoWordPattern: the declarations without a word count, added with
\* wordCount 0 unless a section of that chapter number exists
RECURSIVE addUncounted(_, _)
addUncounted(struct, clauses) ==
    IF clauses = <<>> THEN struct
    ELSE LET c == Head(clauses)
         IN  IF c.kind = "chapter" /\ c.words = 0
                /\ ~ \E k \in 1..Len(struct) :
                        Includes(struct[k].name, <<"CHAPTER", c.num>>)
             THEN addUncounted(addSection(struct, chapterName(c), 0), Tail(clauses))
             ELSE addUncounted(struct, Tail(clauses))

\* originalText.toUpperCase().includes('THESIS')
includesThesis(clauses) ==
    \E k \in 1..Len(clauses) : clauses[k].kind = "text" /\ clauses[k].title = "THESIS"

\* the sanity check without its test for THESIS
sanityScaled_always(tenths, clauses) ==
    IF tenths < 5000 THEN tenths * 1000 ELSE tenths

\* the sanity check on the count, held in tenths: below 500, in a text that
\* mentions a thesis, it is taken to be in thousands
sanityScaled(tenths, clauses) ==
    IF tenths < 5000 /\ includesThesis(clauses) THEN tenths * 1000 ELSE tenths

\* wordCountPatterns: the first EXPAND TO clause, its number read by
\* parseFloat (held in tenths), times 1000 with the K suffix, through the
\* sanity check, rounded; 0 stands for null
parseTarget(clauses) ==
    LET at == {k \in 1..Len(clauses) : clauses[k].kind \in {"expand", "expandK"}}
        match == clauses[Min(at)]
        count == IF match.kind = "expandK" THEN match.words * 1000
                 ELSE 10 * match.words
    IN  IF at = {} THEN 0 ELSE RoundDiv(sanityScaled(count, clauses), 10)

\* /\bDIALOGUE\b|\bCONVERSATION\b|.../i.test(text)
dialogueFormat(clauses) ==
    \E k \in 1..Len(clauses) :
        clauses[k].kind = "text" /\ clauses[k].title \in {"DIALOGUE", "CONVERSATION"}

\* the value parseExpansionInstructions computes from a text not in the cache
parseFresh(customInstructions) ==
    [targetWordCount |-> parseTarget(customInstructions),
     structure |-> addUncounted(addCounted(<<>>, discovered(customInstructions)),
                                customInstructions),
     dialogueFormat |-> dialogueFormat(customInstructions)]

-----------------------------------------------------------------------------
(* Structure building of universalExpand                                   *)

Sec(name, wordCount) == [name |-> <<name>>, wordCount |-> wordCount]

\* a last body section that gets the same share as the other eleven
lastBodyWords_even(remainingWords, bodyTotal) == bodyTotal \div 11

\* const lastBodySectionWords = remainingWords - bodyTotal
lastBodyWords(remainingWords, bodyTotal) == remainingWords - bodyTotal

\* the large table, for a target of 50,000 words or more
largeStructure(targetWordCount) ==
    LET abstractWords == RoundDiv(targetWordCount, 100)
        introWords == RoundDiv(5 * targetWordCount, 100)
        conclusionWords == RoundDiv(4 * targetWordCount, 100)
        fixedTotal == abstractWords + introWords + conclusionWords
        remainingWords == targetWordCount - fixedTotal
        wordsPerSection == RoundDiv(remainingWords, 12)
        bodyTotal == wordsPerSection * 11
        lastBodySectionWords == lastBodyWords(remainingWords, bodyTotal)
    IN  <<Sec("ABSTRACT", abstractWords), Sec("INTRODUCTION", introWords),
          Sec("LITERATURE REVIEW PART 1: HISTORICAL CONTEXT", wordsPerSection),
          Sec("LITERATURE REVIEW PART 2: CONTEMPORARY PERSPECTIVES", wordsPerSection),
          Sec("LITERATURE REVIEW PART 3: CRITICAL ANALYSIS", wordsPerSection),
          Sec("CHAPTER 1: FOUNDATIONAL CONCEPTS", wordsPerSection),
          Sec("CHAPTER 2: THEORETICAL FRAMEWORK", wordsPerSection),
          Sec("CHAPTER 3: CORE ARGUMENT DEVELOPMENT", wordsPerSection),
          Sec("CHAPTER 4: EVIDENCE AND ANALYSIS", wordsPerSection),
          Sec("CHAPTER 5: COUNTERARGUMENTS AND RESPONSES", wordsPerSection),
          Sec("CHAPTER 6: CASE STUDIES", wordsPerSection),
          Sec("CHAPTER 7: METHODOLOGICAL CONSIDERATIONS", wordsPerSection),
          Sec("CHAPTER 8: BROADER IMPLICATIONS", wordsPerSection),
          Sec("CHAPTER 9: FUTURE DIRECTIONS", lastBodySectionWords),
          Sec("CONCLUSION", conclusionWords)>>

\* a section whose name is several words long
Named(words, wordCount) == [name |-> words, wordCount |-> wordCount]

\* a table that gives the conclusion 16% of the target
standardStructure_longConclusion(targetWordCount) ==
    <<Named(<<"ABSTRACT">>, RoundDiv(15 * targetWordCount, 1000)),
      Named(<<"INTRODUCTION">>, RoundDiv(10 * targetWordCount, 100)),
      Named(<<"LITERATURE", "REVIEW">>, RoundDiv(20 * targetWordCount, 100)),
      Named(<<"CHAPTER", "1:", "CORE", "ARGUMENT">>,
            RoundDiv(175 * targetWordCount, 1000)),
      Named(<<"CHAPTER", "2:", "SUPPORTING", "ANALYSIS">>,
            RoundDiv(175 * targetWordCount, 1000)),
      Named(<<"CHAPTER", "3:", "CRITICAL", "EXAMINATION">>,
            RoundDiv(175 * targetWordCount, 1000)),
      Named(<<"CHAPTER", "4:", "IMPLICATIONS">>, RoundDiv(10 * targetWordCount, 100)),
      Named(<<"CONCLUSION">>, RoundDiv(16 * targetWordCount, 100))>>

\* the standard table
standardStructure(targetWordCount) ==
    <<Named(<<"ABSTRACT">>, RoundDiv(15 * targetWordCount, 1000)),
      Named(<<"INTRODUCTION">>, RoundDiv(10 * targetWordCount, 100)),
      Named(<<"LITERATURE", "REVIEW">>, RoundDiv(20 * targetWordCount, 100)),
      Named(<<"CHAPTER", "1:", "CORE", "ARGUMENT">>,
            RoundDiv(175 * targetWordCount, 1000)),
      Named(<<"CHAPTER", "2:", "SUPPORTING", "ANALYSIS">>,
            RoundDiv(175 * targetWordCount, 1000)),
      Named(<<"CHAPTER", "3:", "CRITICAL", "EXAMINATION">>,
            RoundDiv(175 * targetWordCount, 1000)),
      Named(<<"CHAPTER", "4:", "IMPLICATIONS">>, RoundDiv(10 * targetWordCount, 100)),
      Named(<<"CONCLUSION">>, RoundDiv(6 * targetWordCount, 100))>>

RECURSIVE SumWordCount(_)
SumWordCount(struct) ==
    IF struct = <<>> THEN 0 ELSE Head(struct).wordCount + SumWordCount(Tail(struct))

\* the else branch: the remaining word count goes, in equal rounded shares,
\* to the sections whose wordCount is 0
distribute(struct, targetWordCount) ==
    LET totalExplicit == SumWordCount(struct)
        sectionsWithoutCount == {k \in 1..Len(struct) : struct[k].wordCount = 0}
        remaining == targetWordCount - totalExplicit
        perSection == RoundDiv(remaining, Cardinality(sectionsWithoutCount))
    IN  IF sectionsWithoutCount # {} /\ targetWordCount > totalExplicit
        THEN [k \in 1..Len(struct) |->
                 IF k \in sectionsWithoutCount
                 THEN [struct[k] EXCEPT !.wordCount = perSection]
                 ELSE struct[k]]
        ELSE struct

\* targetWordCount = parsed.targetWordCount || request.targetWordCount,
\* and the default when neither is given
resolveTarget(parsedTarget, requestTarget, inputWordCount) ==
    IF parsedTarget # 0 THEN parsedTarget
    ELSE IF requestTarget # 0 THEN requestTarget
    ELSE IF inputWordCount * 10 > 5000 THEN inputWordCount * 10 ELSE 5000

-----------------------------------------------------------------------------
(* Inputs of the model                                                     *)

\* the source text has SourceWords words
SourceWords == 2

I_counted == <<Expand(4), Chapter("1:", "A", 2), Chapter("2:", "B", 0)>>
I_explicit == <<Chapter("1:", "A", 1), Chapter("2:", "B", 2)>>
I_uncounted == <<Chapter("1:", "A", 0), Chapter("2:", "B", 0)>>

\* instruction texts without sections: a k-shorthand target, a small and a
\* larger target in a text that mentions a thesis, and the empty text
I_kilo == <<ExpandK(25)>>
I_smallThesis == <<Expand(300), Text("THESIS")>>
I_thesis == <<Text("THESIS"), Expand(600)>>
I_none == <<>>

InstructionTexts ==
    {I_counted, I_explicit, I_uncounted, I_kilo, I_smallThesis, I_thesis, I_none}

\* chapter declarations with Roman numerals and parenthesized word counts
RomanDeclarations ==
    {<<RomanChapter("IV", "Methods", "2,000")>>,
     <<RomanChapter("IX", "Intro", "1k")>>,
     <<RomanChapter("XIV", "Results", "2.5k")>>,
     <<RomanChapter("XL", "Methods", "2000")>>,
     <<RomanChapter("MCMXCIV", "Labs", "500")>>,
     <<RomanChapter("I", "Theory", "1,500"), RomanChapter("II", "Concl", "300")>>}

\* declarations of one chapter made twice: names that agree in their first
\* 15 characters, a name that goes on where the other ends, on either
\* side, and a Roman and an Arabic declaration of the same chapter
I_sameStart == <<Chapter("1:", "ALPHABET", 1), Chapter("1:", "ALPHA", 2)>>
I_shorter == <<Chapter("1:", "ALPHA", 1), Chapter("1:", "ALP", 2)>>
I_longer == <<Chapter("1:", "ALP", 1), Chapter("1:", "ALPHA", 2)>>
I_twice == <<Chapter("1:", "Methods", 3), RomanChapter("I", "Methods", "2,000")>>

DeclarationTexts == RomanDeclarations \cup {I_sameStart, I_shorter, I_longer, I_twice}

\* request.targetWordCount of a large document
LargeTargets == 50000..(50000 + MaxLargeExtra)

\* a text of three chapters
I_three == <<Chapter("1:", "A", 1), Chapter("2:", "B", 1), Chapter("3:", "C", 1)>>

\* two chapters to be written as a dialogue
I_dialogue == <<Text("DIALOGUE"), Chapter("1:", "A", 2), Chapter("2:", "B", 1)>>

\* a source text of some hundred words
MidSourceWords == 600

\* the sizes of the source texts of a process that is asked for documents of
\* any size
FrontSources == {SourceWords, MidSourceWords}

\* the words of a large source text: MaxChunks - 1 whole chunks, and one
\* word more
LargeSources == {50000 * (MaxChunks - 1), 50000 * (MaxChunks - 1) + 1}

\* request.maxWords; 0 stands for null, undefined and 0 alike, which the
\* freemium check does not tell apart
Ceilings == 0..MaxCeiling

\* The requests of the model: instructions that name their sections, with a
\* progress callback.  A text whose sections carry no word counts comes
\* with a requested target, so that the section targets stay small.
Requests ==
    [customInstructions : {I_counted, I_explicit}, targetWordCount : {0},
     maxWords : Ceilings]
    \cup
    [customInstructions : {I_uncounted}, targetWordCount : 1..MaxTarget,
     maxWords : {0}]
    \cup
    [customInstructions : {I_dialogue}, targetWordCount : {0}, maxWords : {1}]

\* the requests that come with a large source text: two chapters, and
\* three chapters under a ceiling of one word
TierRequests ==
    [customInstructions : {I_explicit}, targetWordCount : {0}, maxWords : Ceilings]
    \cup
    [customInstructions : {I_three}, targetWordCount : {0}, maxWords : {1}]

\* the requests of a process that is asked for documents of any size
FrontRequests ==
    [customInstructions : InstructionTexts, targetWordCount : {0} \cup LargeTargets,
     maxWords : {0}]

\* what the provider may answer to a section-generation call
end_turn == "end_turn"
max_tokens == "max_tokens"

Responses ==
    {[text |-> <<>>, stop_reason |-> end_turn],
     [text |-> <<"a">>, stop_reason |-> end_turn],
     [text |-> <<"a", "b">>, stop_reason |-> max_tokens],
     [text |-> <<"KEY", "POINTS:", "b">>, stop_reason |-> end_turn]}

\* what extractDeltaReport may obtain from the provider: a parsed answer,
\* or none (no JSON, invalid JSON, failed call)
\* a field of the answer: an array of strings, or a value that is no array
Arr(items) == [isArray |-> TRUE, items |-> items]

NoArr == [isArray |-> FALSE, items |-> <<>>]

\* Array.isArray(field) ? field : []
arrayOrEmpty(field) == IF field.isArray THEN field.items ELSE <<>>

\* what the provider may answer to the extractSkeleton call
SkeletonAnswer(blocks, parsed, responseText, thesis, outline, keyTerms, asserts, rejects, assumes, entities) ==
    [blocks |-> blocks, parsed |-> parsed, responseText |-> responseText,
     thesis |-> thesis,
     outline |-> outline, keyTerms |-> keyTerms, asserts |-> asserts,
     rejects |-> rejects, assumes |-> assumes, entities |-> entities]

\* the JSON that was asked for
SoundSkeleton ==
    SkeletonAnswer(1, TRUE, "json", "T", Arr(<<"o">>), Arr(<<"k">>), Arr(<<"p">>),
                   Arr(<<"r1", "r2", "r3", "r4", "r5", "r6">>), Arr(<<"s">>),
                   Arr(<<"e">>))

\* the answers: the JSON that was asked for, a JSON object of another
\* shape, a text without JSON, and a response whose content array is empty
SkeletonAnswers ==
    {SoundSkeleton,
     SkeletonAnswer(1, TRUE, "other json", "", NoArr, NoArr, NoArr, NoArr, NoArr, NoArr),
     SkeletonAnswer(1, FALSE, "no json", "", NoArr, NoArr, NoArr, NoArr, NoArr, NoArr),
     SkeletonAnswer(0, FALSE, "", "", NoArr, NoArr, NoArr, NoArr, NoArr, NoArr)}

DeltaAnswer(parsed, newClaims, termsUsed, conflictsDetected, commitmentStatus) ==
    [parsed |-> parsed, newClaims |-> newClaims, termsUsed |-> termsUsed,
     conflictsDetected |-> conflictsDetected, commitmentStatus |-> commitmentStatus]

\* the answers: the two that were asked for, no JSON at all, and a JSON
\* object of another shape: {"newClaims": "n", "commitmentStatus": "PARTIAL"}
DeltaResponses ==
    {DeltaAnswer(TRUE, Arr(<<"n">>), Arr(<<"t">>), Arr(<<>>), "COMPLIANT"),
     DeltaAnswer(TRUE, Arr(<<>>), Arr(<<"t">>), Arr(<<"c">>), "VIOLATION"),
     DeltaAnswer(FALSE, NoArr, NoArr, NoArr, ""),
     DeltaAnswer(TRUE, NoArr, NoArr, NoArr, "PARTIAL")}

\* a repair entry of the stitch response
Repair(sectionName, problematicText, repairedText) ==
    [isObject |-> TRUE, sectionName |-> sectionName,
     problematicText |-> problematicText, repairedText |-> repairedText]

\* an entry that is no object: "repairs": [null]
NullRepair ==
    [isObject |-> FALSE, sectionName |-> <<>>, problematicText |-> <<>>,
     repairedText |-> <<>>]

RepairEntries ==
    {Repair(<<"CHAPTER", "1:", "A">>, <<"a">>, <<"b">>),
     Repair(<<"CHAPTER", "2:", "B">>, <<"a">>, <<"$&", "b">>),
     Repair(<<"SECTION", "9">>, <<"a">>, <<"b">>),
     Repair(<<"CHAPTER", "1:", "A">>, <<"a">>, <<>>),
     NullRepair}

RepairLists == UNION {[1..n -> RepairEntries] : n \in 0..MaxRepairs}

-----------------------------------------------------------------------------
(* State                                                                   *)

VARIABLES
    parseCache,           \* the module-level Map: instruction text -> parsed
    request,              \* the ExpansionRequest of the job
    pc,                   \* where universalExpand stands
    structure,            \* let structure
    i,                    \* the index of the section loop, from 0
    sections,             \* const sections: string[]
    previousSections,     \* one entry per "=== name (ESTABLISHED)" block
    cumulativeWordCount,
    pointsCoveredSoFar,
    deltaReports,
    halted,               \* the section loop was left by the freemium break
    accumulatedContent,   \* generateSection
    currentWordCount,
    continuationAttempts,
    stopReason,           \* stop_reason of the last response of the loop
    sectionContent,       \* sectionResult.content
    stitchCalls,          \* stitch provider calls made
    repairs,              \* stitchResult.repairs
    repairSteps,          \* sections before the pass and after each entry
    stitchOutcome,        \* how the stitch pass ended
    events,               \* what onChunk received, in order
    result,               \* <<the ExpansionResult>> once returned
    resolvedTarget,       \* let targetWordCount; 0 before it is set
    parseReturn,          \* <<the argument and the object returned>> of the
                          \* last parseExpansionInstructions call
    matcherRuns,          \* calls that went past the cache check
    parseCalls,           \* calls of parseExpansionInstructions
    rawWordCount,         \* the words of request.text
    chunkSkeletons,       \* chunkSkeletons: the skeleton of chunk k is written k
    tierCalls,            \* the generateChunkSkeleton and generateMetaSkeleton calls, in order
    deltaAnswers,         \* what the provider answered to each delta call
    skeletonAnswer,       \* what the provider answers to the extractSkeleton call
    stubWord,             \* Null, or the word the stub provider's texts are made of
    skeleton,             \* const skeleton; <<>> before it is extracted
    prompts,              \* the prompts of the provider calls made so far
    provider,             \* refineSignal: the provider that was selected
    envKeys,              \* the API keys that process.env holds
    chunkText,            \* refineChunk: the chunk to refine
    refinerPc,            \* where refineSignal stands
    attempt,              \* refineChunk: let attempt
    refineResult,         \* refineChunk: let result
    refineReturn,         \* what refineChunk returned; <<>> before it returns
    callLog,              \* the operations that needed a provider, in order
    modal                 \* the state, refs and props of StreamingOutputModal

vars == <<parseCache, request, pc, structure, i, sections, previousSections,
          cumulativeWordCount, pointsCoveredSoFar, deltaReports, halted,
          accumulatedContent, currentWordCount, continuationAttempts,
          stopReason, sectionContent, stitchCalls, repairs, repairSteps,
          stitchOutcome, events, result, resolvedTarget, parseReturn,
          matcherRuns, parseCalls, rawWordCount, chunkSkeletons, tierCalls,
          deltaAnswers, skeletonAnswer, stubWord, skeleton, prompts, provider, envKeys,
          chunkText, refinerPc, attempt, refineResult, refineReturn, callLog,
          modal>>

refinerVars == <<provider, envKeys, chunkText, refinerPc, attempt, refineResult,
                 refineReturn, callLog>>

\* refineSignal is not called
RefinerIdle ==
    /\ provider = "anthropic"
    /\ envKeys = {"ANTHROPIC_API_KEY"}
    /\ chunkText = <<>>
    /\ refinerPc = "idle"
    /\ attempt = 0
    /\ refineResult = <<>>
    /\ refineReturn = <<>>
    /\ callLog = <<>>

\* StreamingOutputModal as mounted: closed, every useState and useRef at its
\* initial value.  A project id that is null is written 0; isCompleteRef
\* stands for isComplete as well, wordCount for wordCountRef and content for
\* contentRef, which are assigned together.
ModalClosed ==
    [isOpen |-> FALSE, startNew |-> FALSE, projectId |-> 0,
     content |-> <<>>, progress |-> 0, currentSection |-> "",
     sectionsCompleted |-> 0, totalSections |-> 0, wordCount |-> 0,
     isCompleteRef |-> FALSE, hasStartedRef |-> FALSE, projectIdRef |-> 0,
     pollFallbackRef |-> FALSE,
     ws |-> "none",          \* the readyState of the last WebSocket
     sockets |-> 0,          \* new WebSocket(wsUrl) calls
     cleanup |-> FALSE,      \* the connection effect returned its cleanup
     pollTimer |-> FALSE,    \* the 3 s timeout of ws.onopen is pending
     pollInFlight |-> 0,     \* the project the polling fetch in flight asks for
     toasts |-> 0,           \* markComplete and markFailed runs
     jobs |-> 0,             \* handleDissertate calls; job n gets project id n
     startPending |-> FALSE] \* the start request is in flight

skeletonVars == <<skeletonAnswer, stubWord, skeleton>>

tierVars == <<rawWordCount, chunkSkeletons, tierCalls>>

parseVars == <<resolvedTarget, parseReturn, matcherRuns, parseCalls>>

genVars == <<accumulatedContent, currentWordCount, continuationAttempts,
             stopReason, sectionContent>>

loopVars == <<i, sections, previousSections, cumulativeWordCount,
              pointsCoveredSoFar, deltaReports, deltaAnswers, halted>>

stitchVars == <<stitchCalls, repairs, repairSteps, stitchOutcome>>

maxContinuationAttempts == 20

Event(type, sectionIndex, totalSections, wordCount, totalWordCount, progress) ==
    [type |-> type, sectionIndex |-> sectionIndex, totalSections |-> totalSections,
     wordCount |-> wordCount, totalWordCount |-> totalWordCount,
     progress |-> progress]

Init ==
    /\ parseCache = <<>>
    /\ request \in Requests
    /\ pc = "idle"
    /\ structure = <<>>
    /\ i = 0
    /\ sections = <<>>
    /\ previousSections = <<>>
    /\ cumulativeWordCount = 0
    /\ pointsCoveredSoFar = <<>>
    /\ deltaReports = <<>>
    /\ deltaAnswers = <<>>
    /\ halted = FALSE
    /\ accumulatedContent = <<>>
    /\ currentWordCount = 0
    /\ continuationAttempts = 0
    /\ stopReason = Null
    /\ sectionContent = <<>>
    /\ stitchCalls = 0
    /\ repairs = <<>>
    /\ repairSteps = <<>>
    /\ stitchOutcome = Null
    /\ events = <<>>
    /\ result = <<>>
    /\ resolvedTarget = 0
    /\ parseReturn = <<>>
    /\ matcherRuns = 0
    /\ parseCalls = 0
    /\ rawWordCount = SourceWords
    /\ chunkSkeletons = <<>>
    /\ tierCalls = <<>>
    /\ skeletonAnswer = SoundSkeleton
    /\ stubWord = Null
    /\ skeleton = <<>>
    /\ prompts = {}
    /\ RefinerIdle
    /\ modal = ModalClosed

-----------------------------------------------------------------------------
(* universalExpand, up to the section loop                                 *)

emit(ev) == events' = Append(events, ev)

\* the prompt of a provider call: the function that makes the call, the
\* variant of its prompt, the source text and the skeleton put into it
Prompt(call, variant, source, skeletonPart) ==
    [call |-> call, variant |-> variant, source |-> source, skeleton |-> skeletonPart]

ask(prompt) == prompts' = prompts \cup {prompt}

noCall == prompts' = prompts

\* the prompt of generateSection for the call it is about to make
sectionPrompt ==
    LET isFirstChunk == continuationAttempts = 0
    IN  IF parseCache[request.customInstructions].dialogueFormat
        THEN IF isFirstChunk
             THEN Prompt("generateSection", "dialogue", "text", "none")
             ELSE Prompt("generateSection", "dialogue continuation", "none", "none")
        ELSE IF isFirstChunk
             THEN Prompt("generateSection", "first", "text", "skeletonConstraint")
             ELSE Prompt("generateSection", "continuation", "none", "skeletonConstraint")

\* extractSkeleton: the fields of the parsed answer, or the fallback
extractSkeleton(answer) ==
    IF answer.parsed
    THEN [thesis |-> IF answer.thesis = "" THEN "No thesis extracted" ELSE answer.thesis,
          outline |-> arrayOrEmpty(answer.outline),
          keyTerms |-> arrayOrEmpty(answer.keyTerms),
          asserts |-> arrayOrEmpty(answer.asserts),
          rejects |-> arrayOrEmpty(answer.rejects),
          assumes |-> arrayOrEmpty(answer.assumes),
          entities |-> arrayOrEmpty(answer.entities),
          raw |-> answer.responseText]
    ELSE [thesis |-> "Skeleton extraction failed - using source text directly",
          outline |-> <<>>, keyTerms |-> <<>>, asserts |-> <<>>, rejects |-> <<>>,
          assumes |-> <<>>, entities |-> <<>>, raw |-> answer.responseText]

progressEvent == Event("progress", NoNumber, NoNumber, NoNumber, NoNumber, NoNumber)

\* a cache check that never finds an entry
cacheHit_never(customInstructions) == FALSE

\* parseCache.has(customInstructions)
cacheHit(customInstructions) == customInstructions \in DOMAIN parseCache

\* parseExpansionInstructions: the cached value if there is one
parseExpansionInstructions(customInstructions) ==
    IF cacheHit(customInstructions)
    THEN parseCache[customInstructions]
    ELSE parseFresh(customInstructions)

\* what a call of parseExpansionInstructions leaves in parseCache:
\* parseCache.set, when the call went past the cache check
cacheAfterParse(customInstructions) ==
    IF cacheHit(customInstructions)
    THEN parseCache
    ELSE (customInstructions :> parseFresh(customInstructions)) @@ parseCache

\* the counters of a call of parseExpansionInstructions
countParse(customInstructions) ==
    /\ parseCalls' = parseCalls + 1
    /\ matcherRuns' = IF cacheHit(customInstructions) THEN matcherRuns
                      ELSE matcherRuns + 1

\* let structure = parsed.structure, or a table when that is empty
buildStructure(parsed, targetWordCount) ==
    IF parsed.structure = <<>>
    THEN IF targetWordCount >= 50000
         THEN largeStructure(targetWordCount)
         ELSE standardStructure(targetWordCount)
    ELSE distribute(parsed.structure, targetWordCount)

\* The cache after the structure step.  A parsed structure is used in
\* place: `structure` is the array of the cached object, and the
\* distribution loop assigns section.wordCount on its elements.
cacheAfterBuild(customInstructions, parsed, struct) ==
    (customInstructions :> (IF parsed.structure = <<>>
                            THEN parsed
                            ELSE [parsed EXCEPT !.structure = struct]))
    @@ parseCache

CHUNK_THRESHOLD == 50000

CHUNK_SIZE == 50000

\* rawWordCount > CHUNK_THRESHOLD: the two-tier skeleton system is used
twoTier == rawWordCount > CHUNK_THRESHOLD

\* words.slice(from, to): the words from..(to - 1) that the text has
slice(from, to) == [from |-> from, to |-> Min({to, rawWordCount})]

\* a chunk loop that goes on while a whole chunk is left
chunksFrom_wholeOnly(k) ==
    [j \in 1..((rawWordCount - k) \div CHUNK_SIZE) |->
        slice(k + (j - 1) * CHUNK_SIZE, k + j * CHUNK_SIZE)]

\* for (let i = 0; i < words.length; i += CHUNK_SIZE) chunks.push(words.slice(i, i + CHUNK_SIZE))
RECURSIVE chunksFrom(_)
chunksFrom(k) ==
    IF k < rawWordCount
    THEN <<slice(k, k + CHUNK_SIZE)>> \o chunksFrom(k + CHUNK_SIZE)
    ELSE <<>>

\* chunks: the words of rawText cut into chunks, each the range of its words
chunks == chunksFrom(0)

\* chunks.length
chunkCount == Len(chunks)

\* the words of `text` after the two-tier stage: the two headings and one
\* heading per chunk; the skeleton texts of the model are empty
twoTierWords == 11 + 4 * chunkCount

\* const inputWordCount = text.trim().split(/\s+/).length
inputWordCount == IF twoTier THEN twoTierWords ELSE rawWordCount

\* a progress event with a percent value
percentEvent(progress) ==
    Event("progress", NoNumber, NoNumber, NoNumber, NoNumber, progress)

\* a chunk percent that counts the chunk itself
chunkPercent_counting(index, total) == RoundDiv(40 * (index + 1), total) + 10

\* Math.round((i / chunks.length) * 40)
chunkPercent(index, total) == RoundDiv(40 * index, total)

\* generateChunkSkeleton(chunks[i], i, chunks.length, customInstructions || '')
ChunkCall(index) ==
    [call |-> "generateChunkSkeleton", chunkIndex |-> index,
     chunk |-> chunks[index + 1], totalChunks |-> chunkCount]

\* generateMetaSkeleton(chunkSkeletons, customInstructions || '', rawWordCount)
MetaCall(skeletons) ==
    [call |-> "generateMetaSkeleton", chunkSkeletons |-> skeletons, totalWords |-> rawWordCount]

\* a large document: the chunks are cut and announced
TwoTierStart ==
    /\ pc = "idle"
    /\ twoTier
    /\ emit(progressEvent)
    /\ chunkSkeletons' = <<>>
    /\ tierCalls' = <<>>
    /\ pc' = "chunk"
    /\ noCall
    /\ UNCHANGED <<modal, refinerVars, skeletonVars, rawWordCount, parseVars, parseCache, request, structure, loopVars,
                   genVars, stitchVars, result>>

\* tier 1, one iteration: the progress event, then the generateChunkSkeleton call
ChunkSkeleton ==
    /\ pc = "chunk"
    /\ Len(chunkSkeletons) < chunkCount
    /\ emit(percentEvent(chunkPercent(Len(chunkSkeletons), chunkCount)))
    /\ pc' = "chunkCall"
    /\ ask(Prompt("generateChunkSkeleton", "chunk", "rawText", "none"))
    /\ tierCalls' = Append(tierCalls, ChunkCall(Len(chunkSkeletons)))
    /\ UNCHANGED <<modal, refinerVars, skeletonVars, rawWordCount, chunkSkeletons, parseVars, parseCache, request, structure, loopVars,
                   genVars, stitchVars, result>>

\* generateChunkSkeleton returned
ChunkDone ==
    /\ pc = "chunkCall"
    /\ chunkSkeletons' = Append(chunkSkeletons, tierCalls[Len(tierCalls)].chunkIndex)
    /\ pc' = "chunk"
    /\ noCall
    /\ UNCHANGED <<modal, refinerVars, skeletonVars, rawWordCount, tierCalls, parseVars, parseCache, request, structure, loopVars,
                   genVars, stitchVars, events, result>>

\* tier 2: the progress event, then the generateMetaSkeleton call
MetaSkeleton ==
    /\ pc = "chunk"
    /\ Len(chunkSkeletons) = chunkCount
    /\ emit(percentEvent(45))
    /\ pc' = "metaCall"
    /\ ask(Prompt("generateMetaSkeleton", "meta", "chunkSkeletons", "none"))
    /\ tierCalls' = Append(tierCalls, MetaCall(chunkSkeletons))
    /\ UNCHANGED <<modal, refinerVars, skeletonVars, rawWordCount, chunkSkeletons, parseVars, parseCache, request, structure, loopVars,
                   genVars, stitchVars, result>>

\* generateMetaSkeleton returned: the skeletons are the text of the job
MetaDone ==
    /\ pc = "metaCall"
    /\ pc' = "parse"
    /\ noCall
    /\ UNCHANGED <<modal, refinerVars, skeletonVars, tierVars, parseVars, parseCache, request, structure, loopVars,
                   genVars, stitchVars, events, result>>

\* from the call to the extractSkeleton provider call
StartJob ==
    /\ \/ pc = "idle" /\ ~ twoTier
       \/ pc = "parse"
    /\ parseCalls < MaxParseCalls
    /\ LET p == parseExpansionInstructions(request.customInstructions)
           target == resolveTarget(p.targetWordCount, request.targetWordCount,
                                   inputWordCount)
           struct == buildStructure(p, target)
       IN  /\ resolvedTarget' = target
           /\ structure' = struct
           /\ parseCache' = cacheAfterBuild(request.customInstructions, p, struct)
    /\ parseReturn' = <<[from |-> request.customInstructions,
                    value |-> parseCache'[request.customInstructions]]>>
    /\ countParse(request.customInstructions)
    /\ emit(progressEvent)
    /\ pc' = "skeleton"
    /\ ask(Prompt("extractSkeleton", "skeleton", "rawText", "none"))
    /\ UNCHANGED <<modal, refinerVars, skeletonVars, tierVars, request, loopVars, genVars, stitchVars, result>>

\* the answer to the extractSkeleton call arrived.  response.content[0].type
\* is read outside the try block: with an empty content array it throws and
\* universalExpand rejects; else extractSkeleton returns and the outline call
\* is made
SkeletonDone ==
    /\ pc = "skeleton"
    /\ IF skeletonAnswer.blocks = 0
       THEN /\ pc' = "failed"
            /\ UNCHANGED <<skeleton, events, prompts>>
       ELSE /\ skeleton' = <<extractSkeleton(skeletonAnswer)>>
            /\ emit(progressEvent)
            /\ pc' = "outline"
            /\ ask(Prompt("universalExpand", "outline", "text", "none"))
    /\ UNCHANGED <<modal, refinerVars, skeletonAnswer, stubWord, tierVars, parseVars, parseCache,
                   request, structure, loopVars, genVars, stitchVars, result>>

\* the outline arrived: the outline event, then the section loop
OutlineDone ==
    /\ pc = "outline"
    /\ emit(Event("outline", NoNumber, Len(structure), NoNumber, NoNumber, NoNumber))
    /\ pc' = "loop"
    /\ i' = 0
    /\ sections' = <<>>
    /\ previousSections' = <<>>
    /\ cumulativeWordCount' = 0
    /\ pointsCoveredSoFar' = <<>>
    /\ deltaReports' = <<>>
    /\ deltaAnswers' = <<>>
    /\ noCall
    /\ UNCHANGED <<modal, refinerVars, skeletonVars, tierVars, parseVars, parseCache,
                   request, structure, halted, genVars, stitchVars, result>>

\* a provider call outside any try block failed: the job rejects
ProviderError ==
    /\ pc \in {"chunkCall", "metaCall", "skeleton", "outline"}
    /\ pc' = "failed"
    /\ noCall
    /\ UNCHANGED <<modal, refinerVars, skeletonVars, tierVars, parseVars, parseCache,
                   request, structure, loopVars, genVars, stitchVars,
                   events, result>>

\* parseExpansionInstructions called on its own, as hasExpansionInstructions
\* calls it
ParseCall ==
    /\ parseCalls < MaxParseCalls
    /\ \E customInstructions \in InstructionTexts :
          /\ parseCache' = cacheAfterParse(customInstructions)
          /\ parseReturn' = <<[from |-> customInstructions,
                               value |-> parseCache'[customInstructions]]>>
          /\ countParse(customInstructions)
    /\ noCall
    /\ UNCHANGED <<modal, refinerVars, skeletonVars, tierVars, request, pc, structure, loopVars, genVars, stitchVars,
                   events, result, resolvedTarget>>

\* parseExpansionInstructions is called with a text of chapter declarations
ParseDeclared ==
    /\ parseCalls < MaxParseCalls
    /\ \E customInstructions \in DeclarationTexts :
          /\ parseCache' = cacheAfterParse(customInstructions)
          /\ parseReturn' = <<[from |-> customInstructions,
                               value |-> parseCache'[customInstructions]]>>
          /\ countParse(customInstructions)
    /\ noCall
    /\ UNCHANGED <<modal, refinerVars, skeletonVars, tierVars, request, pc, structure, loopVars, genVars, stitchVars,
                   events, result, resolvedTarget>>

\* universalExpand is called again in the same process, after a job that
\* was rejected; parseCache is module state and stays
NextRequest ==
    /\ pc = "failed"
    /\ request' \in FrontRequests
    /\ pc' = "idle"
    /\ structure' = <<>>
    /\ resolvedTarget' = 0
    /\ events' = <<>>
    /\ skeleton' = <<>>
    /\ prompts' = {}
    /\ UNCHANGED <<modal, refinerVars, skeletonAnswer, stubWord, tierVars, parseCache, parseReturn, matcherRuns, parseCalls,
                   loopVars, genVars, stitchVars, result>>

-----------------------------------------------------------------------------
(* The section loop and generateSection                                    *)

\* the freemium check with > for >=
freemiumLimitReached_strict ==
    /\ request.maxWords # 0
    /\ cumulativeWordCount > request.maxWords

\* maxWords && cumulativeWordCount >= maxWords
freemiumLimitReached ==
    /\ request.maxWords # 0
    /\ cumulativeWordCount >= request.maxWords

\* a filter that flags every report whose status is not COMPLIANT
violationSections_notCompliant ==
    SelectSeq(deltaReports, LAMBDA d : d.commitmentStatus # "COMPLIANT")

\* deltaReports.filter(d => d.conflictsDetected.length > 0 || d.commitmentStatus === 'VIOLATION')
violationSections ==
    SelectSeq(deltaReports,
              LAMBDA d : d.conflictsDetected # <<>> \/ d.commitmentStatus = "VIOLATION")

\* what follows the section loop: the stitch call if a report is flagged,
\* else the assembler
afterLoop(evs) ==
    IF violationSections # <<>> /\ sections # <<>>
    THEN /\ events' = Append(evs, progressEvent)
         /\ stitchCalls' = stitchCalls + 1
         /\ ask(Prompt("universalExpand", "stitch", "none", "terms and commitments"))
         /\ pc' = "stitch"
    ELSE /\ events' = evs
         /\ stitchCalls' = stitchCalls
         /\ noCall
         /\ pc' = "assemble"

\* the freemium check at the head of an iteration finds the limit reached
FreemiumHalt ==
    /\ pc = "loop"
    /\ i < Len(structure)
    /\ freemiumLimitReached
    /\ halted' = TRUE
    /\ afterLoop(Append(events,
           Event("complete", NoNumber, NoNumber, cumulativeWordCount,
                 cumulativeWordCount, NoNumber)))
    /\ UNCHANGED <<modal, refinerVars, skeletonVars, tierVars, parseVars, parseCache,
                   request, structure, i, sections, previousSections,
                   cumulativeWordCount, pointsCoveredSoFar, deltaReports, deltaAnswers,
                   genVars, repairs, repairSteps, stitchOutcome, result>>

\* the locals of generateSection as it starts; they are held at these
\* values while no call of generateSection is under way
genReset ==
    /\ accumulatedContent' = <<>>
    /\ currentWordCount' = 0
    /\ continuationAttempts' = 0
    /\ stopReason' = Null
    /\ sectionContent' = <<>>

\* the iteration goes on: generateSection is called for structure[i]
StartSection ==
    /\ pc = "loop"
    /\ i < Len(structure)
    /\ ~ freemiumLimitReached
    /\ genReset
    /\ pc' = "gen"
    /\ noCall
    /\ UNCHANGED <<modal, refinerVars, skeletonVars, tierVars, parseVars, parseCache,
                   request, structure, loopVars, stitchVars, events,
                   result>>

\* i reached structure.length
LoopDone ==
    /\ pc = "loop"
    /\ i >= Len(structure)
    /\ afterLoop(events)
    /\ UNCHANGED <<modal, refinerVars, skeletonVars, tierVars, parseVars, parseCache,
                   request, structure, loopVars, genVars, repairs,
                   repairSteps, stitchOutcome, result>>

\* the section generateSection is working on
section == structure[i + 1]

\* the loop condition with the ceiling test off by one
continueLoop_offByOne(words, targetWordCount, attempts) ==
    /\ 20 * words < 19 * targetWordCount
    /\ attempts <= maxContinuationAttempts

\* a loop that goes on until the target is exceeded
continueLoop_untilExceeded(words, targetWordCount, attempts) ==
    /\ words <= targetWordCount
    /\ attempts < maxContinuationAttempts

\* currentWordCount < targetWordCount * 0.95 && continuationAttempts < maxContinuationAttempts
continueLoop(words, targetWordCount, attempts) ==
    /\ 20 * words < 19 * targetWordCount
    /\ attempts < maxContinuationAttempts

\* accumulatedContent after a chunk
accumulate(content, chunkContent, isFirstChunk) ==
    IF isFirstChunk
    THEN Trim(chunkContent)
    ELSE content \o <<NL, NL>> \o Trim(chunkContent)

\* Math.min(wordsRemaining, 4000), wordsRemaining = targetWordCount - currentWordCount
wordsToRequest(targetWordCount, words) == Min({targetWordCount - words, 4000})

\* what the provider may answer to the call of generateSection: any of
\* Responses, or, from the stub provider, a text of exactly the number of
\* words asked for
sectionResponses ==
    IF stubWord = Null
    THEN Responses
    ELSE {[text |-> [k \in 1..wordsToRequest(section.wordCount, currentWordCount)
                        |-> stubWord],
           stop_reason |-> end_turn]}

\* one iteration of the while loop: the provider call and what follows it
GenerateChunk ==
    /\ pc = "gen"
    /\ continueLoop(currentWordCount, section.wordCount, continuationAttempts)
    /\ \E response \in sectionResponses :
         LET content == accumulate(accumulatedContent, response.text,
                                   continuationAttempts = 0)
         IN  /\ accumulatedContent' = content
             /\ currentWordCount' = countWordsFiltered(content)
             /\ stopReason' = response.stop_reason
    /\ continuationAttempts' = continuationAttempts + 1
    /\ ask(sectionPrompt)
    /\ UNCHANGED <<modal, refinerVars, skeletonVars, tierVars, parseVars, parseCache,
                   request, pc, structure, loopVars, sectionContent,
                   stitchVars, events, result>>

\* a rejected call that is reported as a finished section before the job
\* rejects
GenerateError_reporting ==
    /\ pc = "gen"
    /\ continueLoop(currentWordCount, section.wordCount, continuationAttempts)
    /\ pc' = "failed"
    /\ genReset
    /\ emit(Event("section_complete", i, Len(structure), currentWordCount,
                  cumulativeWordCount + currentWordCount, NoNumber))
    /\ ask(sectionPrompt)
    /\ UNCHANGED <<modal, refinerVars, skeletonVars, tierVars, parseVars, parseCache, request, structure, loopVars,
                   stitchVars, result>>

\* anthropic.messages.create rejects inside generateSection: nothing
\* catches it, universalExpand rejects
GenerateError ==
    /\ pc = "gen"
    /\ continueLoop(currentWordCount, section.wordCount, continuationAttempts)
    /\ pc' = "failed"
    /\ genReset
    /\ ask(sectionPrompt)
    /\ UNCHANGED <<modal, refinerVars, skeletonVars, tierVars, parseVars, parseCache,
                   request, structure, loopVars, stitchVars, events,
                   result>>

\* the while loop ends: generateSection logs currentWordCount and
\* continuationAttempts, cleans the text and returns; the delta call is made
GenerateReturn ==
    /\ pc = "gen"
    /\ ~ continueLoop(currentWordCount, section.wordCount, continuationAttempts)
    /\ LET cleanedContent == stripSkeletonMetadata(accumulatedContent)
       IN  /\ sectionContent' = cleanedContent
           /\ pointsCoveredSoFar' =
                  pointsCoveredSoFar \o extractKeyPoints(cleanedContent, section.name)
    /\ accumulatedContent' = <<>>
    /\ pc' = "delta"
    /\ ask(Prompt("extractDeltaReport", "delta", "none", "condensed"))
    /\ UNCHANGED <<modal, refinerVars, skeletonVars, tierVars, parseVars, parseCache,
                   request, structure, i, sections, previousSections,
                   cumulativeWordCount, deltaReports, deltaAnswers, halted,
                   currentWordCount,
                   continuationAttempts, stopReason, stitchVars, events, result>>

\* the part of the section that the delta prompt holds:
\* sectionWords > 4000 ? sectionContent.trim().split(/\s+/).slice(0, 4000) : sectionContent
truncated(content) ==
    IF countWordsSplit(content) > 4000 THEN SubSeq(Words(content), 1, 4000) ELSE content

\* the rejected propositions that the delta prompt holds: rejects.slice(0, 5)
condensedRejects(sk) == SubSeq(sk.rejects, 1, Min({5, Len(sk.rejects)}))

\* the answer of an auditor that reports every contradiction its prompt
\* lets it see: the rejected propositions of the prompt that occur in the
\* section text of the prompt
faithfulAudit(content, sk) ==
    LET seen == truncated(content)
        hits == SelectSeq(condensedRejects(sk),
                          LAMBDA r : \E k \in 1..Len(seen) : seen[k] = r)
    IN  DeltaAnswer(TRUE, Arr(<<>>), Arr(<<>>), Arr(hits),
                    IF hits = <<>> THEN "COMPLIANT" ELSE "VIOLATION")

\* what the provider may answer to the call of extractDeltaReport: any of
\* DeltaResponses, or, from the stub provider, the faithful audit
deltaResponses ==
    IF stubWord = Null
    THEN DeltaResponses
    ELSE {faithfulAudit(sectionContent, skeleton[1])}

\* an extractDeltaReport whose catch block reports UNKNOWN
extractDeltaReport_unknown(sectionName, response) ==
    [sectionName |-> sectionName,
     newClaims |-> arrayOrEmpty(response.newClaims),
     termsUsed |-> arrayOrEmpty(response.termsUsed),
     conflictsDetected |-> arrayOrEmpty(response.conflictsDetected),
     commitmentStatus |-> IF response.commitmentStatus = ""
                          THEN "UNKNOWN" ELSE response.commitmentStatus]

\* extractDeltaReport: the parsed answer, or the sentinel report
extractDeltaReport(sectionName, response) ==
    IF response.parsed
    THEN [sectionName |-> sectionName,
          newClaims |-> arrayOrEmpty(response.newClaims),
          termsUsed |-> arrayOrEmpty(response.termsUsed),
          conflictsDetected |-> arrayOrEmpty(response.conflictsDetected),
          commitmentStatus |-> IF response.commitmentStatus = ""
                               THEN "UNKNOWN" ELSE response.commitmentStatus]
    ELSE [sectionName |-> sectionName, newClaims |-> <<>>, termsUsed |-> <<>>,
          conflictsDetected |-> <<>>, commitmentStatus |-> "EXTRACTION_FAILED"]

\* `${section.name}\n\n${sectionContent.trim()}`
fullSectionText(name, content) == name \o <<NL, NL>> \o Trim(content)

\* Math.round(((i + 1) / structure.length) * 100)
sectionProgress(index, total) == RoundDiv(100 * (index + 1), total)

\* the new block put in front of previousSections instead of behind it
prependSummary(previous, name, content) ==
    <<[name |-> name, summary |-> generateSectionSummary(content)]>> \o previous

\* previousSections += `=== ${section.name} (ESTABLISHED ...) ===\n${condensedSummary}`
appendSummary(previous, name, content) ==
    Append(previous, [name |-> name, summary |-> generateSectionSummary(content)])

\* a section_complete event with the total of the sections before it
sectionCompleteEvent_staleTotal(sectionWordCount) ==
    Event("section_complete", i, Len(structure), sectionWordCount,
          cumulativeWordCount, sectionProgress(i, Len(structure)))

\* the section_complete event of section i, after cumulativeWordCount += sectionWordCount
sectionCompleteEvent(sectionWordCount) ==
    Event("section_complete", i, Len(structure), sectionWordCount,
          cumulativeWordCount + sectionWordCount, sectionProgress(i, Len(structure)))

\* a loop body that asks for the delta report twice
SectionComplete_auditTwice ==
    /\ pc = "delta"
    /\ \E response \in deltaResponses :
         /\ deltaReports' = deltaReports \o
                <<extractDeltaReport(section.name, response),
                  extractDeltaReport(section.name, response)>>
         /\ deltaAnswers' = deltaAnswers \o <<response, response>>
    /\ sections' = Append(sections, fullSectionText(section.name, sectionContent))
    /\ LET sectionWordCount == countWordsSplit(sectionContent)
       IN  /\ cumulativeWordCount' = cumulativeWordCount + sectionWordCount
           /\ emit(sectionCompleteEvent(sectionWordCount))
    /\ previousSections' = appendSummary(previousSections, section.name, sectionContent)
    /\ i' = i + 1
    /\ pc' = "loop"
    /\ genReset
    /\ noCall
    /\ UNCHANGED <<modal, refinerVars, skeletonVars, tierVars, parseVars, parseCache,
                   request, structure, pointsCoveredSoFar, halted,
                   stitchVars, result>>

\* the delta report arrived: the rest of the loop body
SectionComplete ==
    /\ pc = "delta"
    /\ \E response \in deltaResponses :
         /\ deltaReports' = Append(deltaReports, extractDeltaReport(section.name, response))
         /\ deltaAnswers' = Append(deltaAnswers, response)
    /\ sections' = Append(sections, fullSectionText(section.name, sectionContent))
    /\ LET sectionWordCount == countWordsSplit(sectionContent)
       IN  /\ cumulativeWordCount' = cumulativeWordCount + sectionWordCount
           /\ emit(sectionCompleteEvent(sectionWordCount))
    /\ previousSections' = appendSummary(previousSections, section.name, sectionContent)
    /\ i' = i + 1
    /\ pc' = "loop"
    /\ genReset
    /\ noCall
    /\ UNCHANGED <<modal, refinerVars, skeletonVars, tierVars, parseVars, parseCache,
                   request, structure, pointsCoveredSoFar, halted,
                   stitchVars, result>>

-----------------------------------------------------------------------------
(* The stitch pass                                                         *)

\* arr.findIndex(pred) for the set `hits` of the positions whose element
\* satisfies pred, counted from 1; 0 when there is none
findIndex(hits) ==
    IF hits = {} THEN 0 ELSE Min(hits)

\* the replacement text of String.prototype.replace: "$&" stands for the
\* matched text
RECURSIVE substitution(_, _)
substitution(replacement, matched) ==
    IF replacement = <<>> THEN <<>>
    ELSE (IF Head(replacement) = "$&" THEN matched ELSE <<Head(replacement)>>)
         \o substitution(Tail(replacement), matched)

\* a replace that takes the last occurrence
replace_last(text, pattern, replacement) ==
    IF Occurrences(text, pattern) = {} THEN text
    ELSE LET k == CHOOSE o \in Occurrences(text, pattern) :
                      \A q \in Occurrences(text, pattern) : q <= o
         IN  SubSeq(text, 1, k - 1) \o substitution(replacement, pattern)
             \o SubSeq(text, k + Len(pattern), Len(text))

\* text.replace(pattern, replacement) with a string pattern: the first
\* occurrence only
replace(text, pattern, replacement) ==
    IF Occurrences(text, pattern) = {} THEN text
    ELSE LET k == Min(Occurrences(text, pattern))
         IN  SubSeq(text, 1, k - 1) \o substitution(replacement, pattern)
             \o SubSeq(text, k + Len(pattern), Len(text))

\* a lookup that searches for the problematic text first
locateSection_byTextFirst(secs, repair) ==
    LET byName == findIndex({k \in 1..Len(structure) :
                                structure[k].name = repair.sectionName})
        byStart == findIndex({k \in 1..Len(secs) :
                                 StartsWith(secs[k], repair.sectionName)})
        byText == findIndex({k \in 1..Len(secs) :
                                Includes(secs[k], repair.problematicText)})
    IN  IF byText > 0 THEN byText
        ELSE IF byName > 0 THEN byName
        ELSE byStart

\* the section a repair entry is applied to: by name in structure, else by
\* the start of a section text, else by the problematic text; 0 for none
locateSection(secs, repair) ==
    LET byName == findIndex({k \in 1..Len(structure) :
                                structure[k].name = repair.sectionName})
        byStart == findIndex({k \in 1..Len(secs) :
                                 StartsWith(secs[k], repair.sectionName)})
        byText == findIndex({k \in 1..Len(secs) :
                                Includes(secs[k], repair.problematicText)})
    IN  IF byName > 0 THEN byName
        ELSE IF byStart > 0 THEN byStart
        ELSE byText

\* the body of the for loop over stitchResult.repairs: the sections after
\* it, and whether it threw a TypeError (an entry that is no object, or a
\* section index beyond the generated sections)
applyRepair(secs, repair) ==
    IF ~ repair.isObject
    THEN [sections |-> secs, threw |-> TRUE]
    ELSE LET sectionIdx == locateSection(secs, repair)
         IN  IF sectionIdx > 0 /\ repair.problematicText # <<>>
                /\ repair.repairedText # <<>>
             THEN IF sectionIdx > Len(secs)
                  THEN [sections |-> secs, threw |-> TRUE]
                  ELSE [sections |->
                            [secs EXCEPT ![sectionIdx] =
                                replace(secs[sectionIdx], repair.problematicText,
                                        repair.repairedText)],
                        threw |-> FALSE]
             ELSE [sections |-> secs, threw |-> FALSE]

\* the for loop: the sections before it and after each entry it completed,
\* and whether it was left by an exception
RECURSIVE applyRepairs(_, _)
applyRepairs(steps, list) ==
    IF list = <<>> THEN [steps |-> steps, threw |-> FALSE]
    ELSE LET r == applyRepair(steps[Len(steps)], Head(list))
         IN  IF r.threw THEN [steps |-> steps, threw |-> TRUE]
             ELSE applyRepairs(Append(steps, r.sections), Tail(list))

\* the stitch answer was parsed; its repairs are applied in place.  The
\* empty list stands also for an answer without JSON or without a repairs
\* array.  An exception leaves the try block for the catch: one thrown by
\* the repair loop, or one thrown after it by the loop that logs the
\* terminologyDrift entries (driftThrows: an entry that is no object).
StitchRepair ==
    /\ pc = "stitch"
    /\ \E list \in RepairLists, driftThrows \in BOOLEAN :
         LET r == applyRepairs(<<sections>>, list)
         IN  /\ repairs' = list
             /\ repairSteps' = r.steps
             /\ sections' = r.steps[Len(r.steps)]
             /\ stitchOutcome' = IF r.threw \/ driftThrows THEN "caught" ELSE "applied"
    /\ pc' = "assemble"
    /\ noCall
    /\ UNCHANGED <<modal, refinerVars, skeletonVars, tierVars, parseVars, parseCache,
                   request, structure, i, previousSections,
                   cumulativeWordCount, pointsCoveredSoFar, deltaReports, deltaAnswers,
                   halted, genVars, stitchCalls, events, result>>

\* the stitch call rejected, or its answer was no valid JSON: caught
StitchError ==
    /\ pc = "stitch"
    /\ repairs' = <<>>
    /\ repairSteps' = <<sections>>
    /\ stitchOutcome' = "caught"
    /\ pc' = "assemble"
    /\ noCall
    /\ UNCHANGED <<modal, refinerVars, skeletonVars, tierVars, parseVars, parseCache,
                   request, structure, loopVars, genVars, stitchCalls,
                   events, result>>

-----------------------------------------------------------------------------
(* The assembler                                                           *)

\* sections.join('\n\n')
RECURSIVE joinSections(_)
joinSections(secs) ==
    IF secs = <<>> THEN <<>>
    ELSE IF Len(secs) = 1 THEN secs[1]
    ELSE secs[1] \o <<NL, NL>> \o joinSections(Tail(secs))

Assemble ==
    /\ pc = "assemble"
    /\ LET expandedText == joinSections(sections)
           outputWordCount == countWordsSplit(expandedText)
       IN  /\ emit(Event("complete", NoNumber, Len(structure), NoNumber,
                         outputWordCount, 100))
           /\ result' = <<[expandedText |-> expandedText,
                           inputWordCount |-> inputWordCount,
                           outputWordCount |-> outputWordCount,
                           sectionsGenerated |-> Len(structure)]>>
    /\ pc' = "done"
    /\ repairs' = <<>>
    /\ repairSteps' = <<>>
    /\ noCall
    /\ UNCHANGED <<modal, refinerVars, skeletonVars, tierVars, parseVars, parseCache,
                   request, structure, loopVars, genVars, stitchCalls,
                   stitchOutcome>>

-----------------------------------------------------------------------------

Next ==
    \/ StartJob
    \/ SkeletonDone
    \/ OutlineDone
    \/ ProviderError
    \/ FreemiumHalt
    \/ StartSection
    \/ LoopDone
    \/ GenerateChunk
    \/ GenerateError
    \/ GenerateReturn
    \/ SectionComplete
    \/ StitchRepair
    \/ StitchError
    \/ Assemble

Spec == Init /\ [][Next]_vars

\* The front of the pipeline in a long-lived process: parse calls, and jobs
\* that get as far as the skeleton call, which then fails
InitFront ==
    /\ parseCache = <<>>
    /\ request \in FrontRequests
    /\ pc = "idle"
    /\ structure = <<>>
    /\ i = 0
    /\ sections = <<>>
    /\ previousSections = <<>>
    /\ cumulativeWordCount = 0
    /\ pointsCoveredSoFar = <<>>
    /\ deltaReports = <<>>
    /\ deltaAnswers = <<>>
    /\ halted = FALSE
    /\ accumulatedContent = <<>>
    /\ currentWordCount = 0
    /\ continuationAttempts = 0
    /\ stopReason = Null
    /\ sectionContent = <<>>
    /\ stitchCalls = 0
    /\ repairs = <<>>
    /\ repairSteps = <<>>
    /\ stitchOutcome = Null
    /\ events = <<>>
    /\ result = <<>>
    /\ resolvedTarget = 0
    /\ parseReturn = <<>>
    /\ matcherRuns = 0
    /\ parseCalls = 0
    /\ rawWordCount \in FrontSources
    /\ chunkSkeletons = <<>>
    /\ tierCalls = <<>>
    /\ skeletonAnswer = SoundSkeleton
    /\ stubWord = Null
    /\ skeleton = <<>>
    /\ prompts = {}
    /\ RefinerIdle
    /\ modal = ModalClosed

SkeletonFails ==
    /\ pc = "skeleton"
    /\ ProviderError

NextFront ==
    \/ ParseCall
    \/ StartJob
    \/ SkeletonFails
    \/ NextRequest

SpecFront == InitFront /\ [][NextFront]_vars

\* large source texts, and the longest text that is not large
TierSources == LargeSources \cup {50000}

\* The pipeline on a large source text, with the two-tier skeleton stage
InitTiers ==
    /\ parseCache = <<>>
    /\ request \in TierRequests
    /\ pc = "idle"
    /\ structure = <<>>
    /\ i = 0
    /\ sections = <<>>
    /\ previousSections = <<>>
    /\ cumulativeWordCount = 0
    /\ pointsCoveredSoFar = <<>>
    /\ deltaReports = <<>>
    /\ deltaAnswers = <<>>
    /\ halted = FALSE
    /\ accumulatedContent = <<>>
    /\ currentWordCount = 0
    /\ continuationAttempts = 0
    /\ stopReason = Null
    /\ sectionContent = <<>>
    /\ stitchCalls = 0
    /\ repairs = <<>>
    /\ repairSteps = <<>>
    /\ stitchOutcome = Null
    /\ events = <<>>
    /\ result = <<>>
    /\ resolvedTarget = 0
    /\ parseReturn = <<>>
    /\ matcherRuns = 0
    /\ parseCalls = 0
    /\ rawWordCount \in TierSources
    /\ chunkSkeletons = <<>>
    /\ tierCalls = <<>>
    /\ skeletonAnswer = SoundSkeleton
    /\ stubWord = Null
    /\ skeleton = <<>>
    /\ prompts = {}
    /\ RefinerIdle
    /\ modal = ModalClosed

NextTiers ==
    \/ TwoTierStart
    \/ ChunkSkeleton
    \/ ChunkDone
    \/ MetaSkeleton
    \/ MetaDone
    \/ Next

SpecTiers == InitTiers /\ [][NextTiers]_vars

\* The pipeline with any answer to the skeleton extraction, on a small and
\* on a large source
SkeletonRequests ==
    {[customInstructions |-> I_explicit, targetWordCount |-> 0, maxWords |-> 0],
     [customInstructions |-> I_three, targetWordCount |-> 0, maxWords |-> 1]}

InitSkeleton ==
    /\ parseCache = <<>>
    /\ request \in SkeletonRequests
    /\ pc = "idle"
    /\ structure = <<>>
    /\ i = 0
    /\ sections = <<>>
    /\ previousSections = <<>>
    /\ cumulativeWordCount = 0
    /\ pointsCoveredSoFar = <<>>
    /\ deltaReports = <<>>
    /\ deltaAnswers = <<>>
    /\ halted = FALSE
    /\ accumulatedContent = <<>>
    /\ currentWordCount = 0
    /\ continuationAttempts = 0
    /\ stopReason = Null
    /\ sectionContent = <<>>
    /\ stitchCalls = 0
    /\ repairs = <<>>
    /\ repairSteps = <<>>
    /\ stitchOutcome = Null
    /\ events = <<>>
    /\ result = <<>>
    /\ resolvedTarget = 0
    /\ parseReturn = <<>>
    /\ matcherRuns = 0
    /\ parseCalls = 0
    /\ rawWordCount \in {SourceWords, CHUNK_THRESHOLD + 1}
    /\ chunkSkeletons = <<>>
    /\ tierCalls = <<>>
    /\ skeletonAnswer \in SkeletonAnswers
    /\ stubWord = Null
    /\ skeleton = <<>>
    /\ prompts = {}
    /\ RefinerIdle
    /\ modal = ModalClosed

SpecSkeleton == InitSkeleton /\ [][NextTiers]_vars

-----------------------------------------------------------------------------
(* The signal refiner: refineSignal, extractDocumentStructure, refineChunk *)

MAX_RETRIES == 2

\* a text of n words
Filler(n) == [k \in 1..n |-> "w"]

\* countWords of the audit service: the words of a text
countWords(text) == Len(text)

\* cleanMarkdown: the heading marks at the head of a line and the quote
\* marks are taken out, the words stay
cleanMarkdown(text) == SelectSeq(text, LAMBDA t : t \notin {"#", ">"})

\* Math.round(inputWords * 0.7)
targetWords(inputWords) == RoundDiv(7 * inputWords, 10)

\* Math.max(50, Math.round(targetWords * 0.6))
minWords(inputWords) ==
    LET m == RoundDiv(6 * targetWords(inputWords), 10)
    IN  IF m > 50 THEN m ELSE 50

\* the texts given to refineSignal: one too short, and two of one chunk
RefinerTexts == {Filler(49), Filler(60), Filler(130)}

Providers == {"anthropic", "openai", "gemini"}

KeySets == SUBSET {"ANTHROPIC_API_KEY", "OPENAI_API_KEY"}

\* what a provider may answer to refineChunk: no text, a heading mark only,
\* a word, and texts of 50 and of 55 words
RefinerResponses == {Filler(0), <<"#">>, Filler(1), Filler(50), <<"#">> \o Filler(55)}

\* an operation that needed a provider: which one it called, and how it ended
Logged(operation, used, outcome) ==
    [operation |-> operation, used |-> used, outcome |-> outcome]

log(entry) == callLog' = Append(callLog, entry)

\* the branch of refineChunk that the selected provider and its key open
configured ==
    \/ provider = "anthropic" /\ "ANTHROPIC_API_KEY" \in envKeys
    \/ provider = "openai" /\ "OPENAI_API_KEY" \in envKeys

\* refineSignal is called: a text of fewer than 50 words is refused
RefineStart ==
    /\ refinerPc = "idle"
    /\ chunkText # <<>>
    /\ refinerPc' = IF countWords(chunkText) < 50 THEN "thrown" ELSE "structure"
    /\ UNCHANGED <<provider, envKeys, chunkText, attempt, refineResult, refineReturn,
                   callLog>>
    /\ UNCHANGED <<modal, parseCache, request, pc, structure, loopVars, genVars, stitchVars,
                   events, result, parseVars, tierVars, skeletonVars, prompts>>

\* extractDocumentStructure: Anthropic when it is selected and has its key,
\* else OpenAI when that has a key, else nothing; every error is caught
ExtractStructure ==
    /\ refinerPc = "structure"
    /\ IF provider = "anthropic" /\ "ANTHROPIC_API_KEY" \in envKeys
       THEN \E outcome \in {"ok", "error caught"} :
                log(Logged("extractDocumentStructure", "anthropic", outcome))
       ELSE IF "OPENAI_API_KEY" \in envKeys
            THEN \E outcome \in {"ok", "error caught"} :
                     log(Logged("extractDocumentStructure", "openai", outcome))
            ELSE log(Logged("extractDocumentStructure", "none", "empty"))
    /\ refinerPc' = "chunk"
    /\ attempt' = 0
    /\ refineResult' = <<>>
    /\ UNCHANGED <<provider, envKeys, chunkText, refineReturn>>
    /\ UNCHANGED <<modal, parseCache, request, pc, structure, loopVars, genVars, stitchVars,
                   events, result, parseVars, tierVars, skeletonVars, prompts>>

\* what refineChunk returns when the loop has run out, with the chunk
\* never given back
exhausted_lastResult(lastResult, chunk) == lastResult

\* return result || chunkText
exhausted(lastResult, chunk) == IF lastResult # <<>> THEN lastResult ELSE chunk

\* the catch block of refineChunk: the last attempt throws the error on
caught ==
    refinerPc' = IF attempt + 1 >= MAX_RETRIES THEN "thrown" ELSE "chunk"

\* one iteration of the while loop of refineChunk
RefineAttempt ==
    /\ refinerPc = "chunk"
    /\ attempt < MAX_RETRIES
    /\ attempt' = attempt + 1
    /\ IF configured
       THEN \/ /\ log(Logged("refineChunk", provider, "api error"))
               /\ caught
               /\ UNCHANGED <<refineResult, refineReturn>>
            \/ \E response \in RefinerResponses :
                 LET cleaned == cleanMarkdown(response)
                 IN  /\ refineResult' = cleaned
                     /\ IF countWords(cleaned) >= minWords(countWords(chunkText))
                        THEN /\ log(Logged("refineChunk", provider, "ok"))
                             /\ refineReturn' = <<cleaned>>
                             /\ refinerPc' = "returned"
                        ELSE /\ log(Logged("refineChunk", provider, "too short"))
                             /\ refineReturn' = refineReturn
                             /\ refinerPc' = "chunk"
       ELSE /\ log(Logged("refineChunk", "none", "not configured"))
            /\ caught
            /\ UNCHANGED <<refineResult, refineReturn>>
    /\ UNCHANGED <<provider, envKeys, chunkText>>
    /\ UNCHANGED <<modal, parseCache, request, pc, structure, loopVars, genVars, stitchVars,
                   events, result, parseVars, tierVars, skeletonVars, prompts>>

\* the while loop has run out
RefineExhausted ==
    /\ refinerPc = "chunk"
    /\ attempt >= MAX_RETRIES
    /\ refineReturn' = <<exhausted(refineResult, chunkText)>>
    /\ refinerPc' = "returned"
    /\ UNCHANGED <<provider, envKeys, chunkText, attempt, refineResult, callLog>>
    /\ UNCHANGED <<modal, parseCache, request, pc, structure, loopVars, genVars, stitchVars,
                   events, result, parseVars, tierVars, skeletonVars, prompts>>

InitRefine ==
    /\ parseCache = <<>>
    /\ request \in {[customInstructions |-> I_none, targetWordCount |-> 0,
                      maxWords |-> 0]}
    /\ pc = "idle"
    /\ structure = <<>>
    /\ i = 0
    /\ sections = <<>>
    /\ previousSections = <<>>
    /\ cumulativeWordCount = 0
    /\ pointsCoveredSoFar = <<>>
    /\ deltaReports = <<>>
    /\ deltaAnswers = <<>>
    /\ halted = FALSE
    /\ accumulatedContent = <<>>
    /\ currentWordCount = 0
    /\ continuationAttempts = 0
    /\ stopReason = Null
    /\ sectionContent = <<>>
    /\ stitchCalls = 0
    /\ repairs = <<>>
    /\ repairSteps = <<>>
    /\ stitchOutcome = Null
    /\ events = <<>>
    /\ result = <<>>
    /\ resolvedTarget = 0
    /\ parseReturn = <<>>
    /\ matcherRuns = 0
    /\ parseCalls = 0
    /\ rawWordCount = SourceWords
    /\ chunkSkeletons = <<>>
    /\ tierCalls = <<>>
    /\ skeletonAnswer = SoundSkeleton
    /\ stubWord = Null
    /\ skeleton = <<>>
    /\ prompts = {}
    /\ provider \in Providers
    /\ envKeys \in KeySets
    /\ chunkText \in RefinerTexts
    /\ refinerPc = "idle"
    /\ attempt = 0
    /\ refineResult = <<>>
    /\ refineReturn = <<>>
    /\ callLog = <<>>
    /\ modal = ModalClosed

NextRefine ==
    \/ RefineStart
    \/ ExtractStructure
    \/ RefineAttempt
    \/ RefineExhausted

SpecRefine == InitRefine /\ [][NextRefine]_vars

\* The parser on texts of chapter declarations, and the jobs that are
\* started on them
ParseRequests ==
    [customInstructions : {I_sameStart, I_shorter, I_twice}, targetWordCount : {0},
     maxWords : {0}]

InitParse ==
    /\ parseCache = <<>>
    /\ request \in ParseRequests
    /\ pc = "idle"
    /\ structure = <<>>
    /\ i = 0
    /\ sections = <<>>
    /\ previousSections = <<>>
    /\ cumulativeWordCount = 0
    /\ pointsCoveredSoFar = <<>>
    /\ deltaReports = <<>>
    /\ deltaAnswers = <<>>
    /\ halted = FALSE
    /\ accumulatedContent = <<>>
    /\ currentWordCount = 0
    /\ continuationAttempts = 0
    /\ stopReason = Null
    /\ sectionContent = <<>>
    /\ stitchCalls = 0
    /\ repairs = <<>>
    /\ repairSteps = <<>>
    /\ stitchOutcome = Null
    /\ events = <<>>
    /\ result = <<>>
    /\ resolvedTarget = 0
    /\ parseReturn = <<>>
    /\ matcherRuns = 0
    /\ parseCalls = 0
    /\ rawWordCount = SourceWords
    /\ chunkSkeletons = <<>>
    /\ tierCalls = <<>>
    /\ skeletonAnswer = SoundSkeleton
    /\ stubWord = Null
    /\ skeleton = <<>>
    /\ prompts = {}
    /\ RefinerIdle
    /\ modal = ModalClosed

NextParse ==
    \/ ParseDeclared
    \/ StartJob

SpecParse == InitParse /\ [][NextParse]_vars

-----------------------------------------------------------------------------
(* The pipeline with a stub provider                                       *)

\* The stub answers every call of generateSection with a text of exactly
\* the number of words asked for, and every call of extractDeltaReport with
\* the faithful audit of the prompt.  Its texts repeat one word: a plain
\* word, or a proposition that the skeleton rejects
StubWords == {"w", "r1", "r6"}

MaxStubSpread == 2

\* the targets of "EXPAND TO T WORDS": a small one, the ones around 439,
\* and one whose longest section takes more than 4000 words
StubTargets == {20, 22000} \cup ((439 - MaxStubSpread)..(439 + MaxStubSpread))

StubRequests ==
    {[customInstructions |-> <<Expand(t)>>, targetWordCount |-> 0, maxWords |-> 0] :
        t \in StubTargets}

InitStub ==
    /\ parseCache = <<>>
    /\ request \in StubRequests
    /\ pc = "idle"
    /\ structure = <<>>
    /\ i = 0
    /\ sections = <<>>
    /\ previousSections = <<>>
    /\ cumulativeWordCount = 0
    /\ pointsCoveredSoFar = <<>>
    /\ deltaReports = <<>>
    /\ deltaAnswers = <<>>
    /\ halted = FALSE
    /\ accumulatedContent = <<>>
    /\ currentWordCount = 0
    /\ continuationAttempts = 0
    /\ stopReason = Null
    /\ sectionContent = <<>>
    /\ stitchCalls = 0
    /\ repairs = <<>>
    /\ repairSteps = <<>>
    /\ stitchOutcome = Null
    /\ events = <<>>
    /\ result = <<>>
    /\ resolvedTarget = 0
    /\ parseReturn = <<>>
    /\ matcherRuns = 0
    /\ parseCalls = 0
    /\ rawWordCount = SourceWords
    /\ chunkSkeletons = <<>>
    /\ tierCalls = <<>>
    /\ skeletonAnswer = SoundSkeleton
    /\ stubWord \in StubWords
    /\ skeleton = <<>>
    /\ prompts = {}
    /\ RefinerIdle
    /\ modal = ModalClosed

NextStub ==
    \/ StartJob
    \/ SkeletonDone
    \/ OutlineDone
    \/ StartSection
    \/ LoopDone
    \/ GenerateChunk
    \/ GenerateReturn
    \/ SectionComplete
    \/ StitchRepair
    \/ StitchError
    \/ Assemble

SpecStub == InitStub /\ [][NextStub]_vars

-----------------------------------------------------------------------------
(* Claims                                                                  *)

\* the words a text has: the count generateSection takes of its own text
wordsOf(text) == Len(SelectSeq(text, LAMBDA t : t # NL))

\* x >= 0.95 * target
reaches95(x, target) == 20 * x >= 19 * target

\* generateSection has returned and universalExpand has not gone on yet
sectionReturned == pc = "delta"

\* C1 as stated: the continuation loop makes at most 20 provider calls, and
\* when generateSection returns, either exactly 20 calls were made or the
\* text it returns has at least 0.95 * T words.
C1_ReturnedTextReaches95 ==
    /\ continuationAttempts <= 20
    /\ sectionReturned =>
          \/ continuationAttempts = 20
          \/ reaches95(wordsOf(sectionContent), section.wordCount)

\* C1 amended: the continuation loop makes at most 20 provider calls, and
\* when generateSection returns, either exactly 20 calls were made or the
\* text accumulated by the loop, as the loop counted it before the metadata
\* lines were stripped, has at least 0.95 * T words.
C1_AccumulatedTextReaches95 ==
    /\ continuationAttempts <= 20
    /\ sectionReturned =>
          \/ continuationAttempts = 20
          \/ reaches95(currentWordCount, section.wordCount)

\* C1 witness: a section returned after 20 calls, short of 95% of its target
C1_Witness ==
    /\ sectionReturned
    /\ continuationAttempts = 20
    /\ ~ reaches95(currentWordCount, section.wordCount)

\* C2 as stated: when a response was cut off by the length limit and fewer
\* than 20 calls have been made, another call follows before the section
\* is returned; no section returns with a truncated response as its last
\* chunk.
C2_TruncatedResponseIsContinued ==
    sectionReturned => ~ (stopReason = max_tokens /\ continuationAttempts < 20)

\* C3: a section is generated only when all sections before it are
\* generated and appended; the finalized sections are a prefix of the
\* structure, in its order; and the previous-sections context holds one
\* summary entry for each earlier section, in order, and no other.
C3_SectionsInStructureOrder ==
    /\ Len(sections) <= Len(structure)
    /\ pc \in {"loop", "gen", "delta"} =>
          /\ Len(sections) = i
          /\ \A k \in 1..Len(sections) :
                StartsWith(sections[k], structure[k].name \o <<NL, NL>>)
    /\ pc \in {"gen", "delta"} =>
          /\ i < Len(structure)
          /\ Len(previousSections) = i
    /\ \A k \in 1..Len(previousSections) :
          /\ k <= Len(structure)
          /\ previousSections[k].name = structure[k].name
          /\ sections[k] = structure[k].name \o <<NL, NL>> \o previousSections[k].summary
             \/ pc \in {"assemble", "done"}

\* C3 witness: the second section is being generated, with the summary of
\* the first as its context
C3_Witness ==
    /\ pc = "gen"
    /\ i = 1
    /\ Len(previousSections) = 1
    /\ continuationAttempts > 0

completeEvents == SelectSeq(events, LAMBDA e : e.type = "complete")

sectionEvents == SelectSeq(events, LAMBDA e : e.type = "section_complete")

\* C4: with a ceiling set, a section is started only after a check that
\* found the cumulative count below the ceiling; once a check finds the
\* ceiling reached, no section-generation or delta call follows, a complete
\* event is emitted, and the job returns the text of exactly the sections
\* finished by then.
C4_CeilingHaltsBetweenSections ==
    /\ request.maxWords > 0 /\ pc \in {"gen", "delta"} =>
          cumulativeWordCount < request.maxWords
    /\ halted =>
          /\ pc \in {"stitch", "assemble", "done"}
          /\ cumulativeWordCount >= request.maxWords
          /\ completeEvents # <<>>
          /\ Len(sections) = i
          /\ Len(sectionEvents) = i
          /\ Len(deltaReports) = i
          /\ i < Len(structure)
    /\ halted /\ pc = "done" =>
          /\ Len(result) = 1
          /\ LET parts == SplitLines(result[1].expandedText)
                 headings == {k \in 1..Len(parts) : parts[k] # <<>> /\ parts[k][1] = "CHAPTER"}
             IN  Cardinality(headings) = i

\* C4 witness: a job halted by the ceiling has returned fewer sections than
\* the structure has
C4_Witness ==
    /\ halted
    /\ pc = "done"
    /\ Len(sections) = 1
    /\ Len(structure) = 2

\* C5 as stated: with maxWords set, the cumulative word count of the
\* generated sections never exceeds maxWords.
C5_CeilingNeverExceeded ==
    request.maxWords > 0 => cumulativeWordCount <= request.maxWords

\* the stitch pass has run its repair loop and the assembler has not yet
\* taken the sections
repairsRecorded == pc = "assemble" /\ stitchOutcome # Null

\* the sections that hold the text
sectionsHolding(secs, text) == {j \in 1..Len(secs) : Includes(secs[j], text)}

\* the text with the literal replacement put in place of the first
\* occurrence of the pattern
literalReplaceFirst(text, pattern, replacement) ==
    LET starts == {k \in 1..(Len(text) - Len(pattern) + 1) :
                      SubSeq(text, k, k + Len(pattern) - 1) = pattern}
        k == CHOOSE o \in starts : \A q \in starts : o <= q
    IN  SubSeq(text, 1, k - 1) \o replacement \o SubSeq(text, k + Len(pattern), Len(text))

\* section j of `after` is section j of `before` with the entry's repair
\* made, and every other section is as in `before`
repairedIn(before, after, j, entry) ==
    /\ Len(after) = Len(before)
    /\ after[j] = literalReplaceFirst(before[j], entry.problematicText, entry.repairedText)
    /\ \A m \in 1..Len(before) : m # j => after[m] = before[m]

namedSection(secs, entry) ==
    LET exact == {k \in 1..Len(structure) : structure[k].name = entry.sectionName}
        start == {k \in 1..Len(secs) :
                     /\ Len(secs[k]) >= Len(entry.sectionName)
                     /\ SubSeq(secs[k], 1, Len(entry.sectionName)) = entry.sectionName}
    IN  IF exact # {} THEN CHOOSE k \in exact : \A q \in exact : k <= q
        ELSE IF start # {} THEN CHOOSE k \in start : \A q \in start : k <= q
        ELSE 0

\* the entry's repairedText is not empty and holds no $ replacement pattern
plainReplacement(entry) ==
    /\ entry.repairedText # <<>>
    /\ \A k \in 1..Len(entry.repairedText) : entry.repairedText[k] # "$&"

\* entry k of the repair list, applied to the sections as entry k found
\* them, is in the case of the amended C6 for section j
C6_Case(k, j) ==
    /\ repairs[k].isObject
    /\ plainReplacement(repairs[k])
    /\ sectionsHolding(repairSteps[k], repairs[k].problematicText) = {j}
    /\ namedSection(repairSteps[k], repairs[k]) \in {0, j}

C7_FailedStitchLeavesSectionsAsBefore ==
    repairsRecorded /\ stitchOutcome = "caught" => sections = repairSteps[1]

\* the permutations of 1..n
Perms(n) == {f \in [1..n -> 1..n] : \A a, b \in 1..n : a # b => f[a] # f[b]}

\* the sections the repair loop leaves when it is given the list in the
\* order f
repairedInOrder(secs, list, f) ==
    LET r == applyRepairs(<<secs>>, [k \in 1..Len(list) |-> list[f[k]]])
    IN  r.steps[Len(r.steps)]

\* C8 as stated: the repair loop leaves the same sections for every
\* permutation of the repair list.  Stated for a pass that ended without an
\* exception, so that the permutations differ in the order of the
\* substitutions only.
C8_RepairsOrderIndependent ==
    repairsRecorded /\ stitchOutcome = "applied" =>
        \A f \in Perms(Len(repairs)) :
            repairedInOrder(repairSteps[1], repairs, f) = sections

\* every entry is an object whose sectionName is the exact name of a
\* generated section, and no two entries name the same section
namesDistinctSections(secs, list) ==
    /\ \A k \in 1..Len(list) :
          /\ list[k].isObject
          /\ \E j \in 1..Len(secs) : structure[j].name = list[k].sectionName
    /\ \A a, b \in 1..Len(list) : a # b => list[a].sectionName # list[b].sectionName

\* C8 amended: when every entry of the repair list is an object whose
\* sectionName is the exact name of a generated section and no two entries
\* name the same section, the repair loop leaves the same sections for every
\* permutation of the list.
C8_DisjointRepairsOrderIndependent ==
    repairsRecorded /\ namesDistinctSections(repairSteps[1], repairs) =>
        \A f \in Perms(Len(repairs)) :
            repairedInOrder(repairSteps[1], repairs, f) = sections

\* C8 witness: two entries naming two different generated sections were
\* applied and each changed its section
C8_Witness ==
    /\ repairsRecorded
    /\ Len(repairs) = 2
    /\ namesDistinctSections(repairSteps[1], repairs)
    /\ sections[1] # repairSteps[1][1]
    /\ sections[2] # repairSteps[1][2]

\* a delta report with conflicts or the status VIOLATION is among those
\* collected
someReportFlagged ==
    \E k \in 1..Len(deltaReports) :
        \/ Len(deltaReports[k].conflictsDetected) > 0
        \/ deltaReports[k].commitmentStatus = "VIOLATION"

\* the sections are as the section loop appended them
sectionsAsGenerated ==
    /\ Len(sections) = Len(previousSections)
    /\ \A k \in 1..Len(sections) :
          sections[k] = structure[k].name \o <<NL, NL>> \o previousSections[k].summary

\* C9 as stated: the stitch call is made at most once per job, only after
\* the last section has been generated, and only if a collected delta report
\* is flagged; when none is flagged the sections reach the assembler
\* unchanged.
C9_StitchOnceAfterLastSection ==
    /\ stitchCalls <= 1
    /\ pc = "stitch" => Len(sections) = Len(structure) /\ someReportFlagged
    /\ pc \in {"assemble", "done"} /\ ~ someReportFlagged =>
          stitchCalls = 0 /\ sectionsAsGenerated

\* C9 amended: the stitch call is made at most once per job, only after the
\* section loop has ended, with the last section generated or with the
\* max-words ceiling reached, and only if a collected delta report is
\* flagged; when none is flagged the sections reach the assembler unchanged.
C9_StitchOnceAfterSectionLoop ==
    /\ stitchCalls <= 1
    /\ stitchCalls = 1 => pc \in {"stitch", "assemble", "done"}
    /\ pc = "stitch" =>
          /\ stitchCalls = 1
          /\ Len(sections) = Len(structure) \/ halted
          /\ Len(sections) = i
          /\ someReportFlagged
    /\ pc \in {"assemble", "done"} /\ ~ someReportFlagged =>
          stitchCalls = 0 /\ sectionsAsGenerated

\* C9 witness: the stitch call is in flight after the ceiling ended the
\* section loop before the last section
C9_Witness ==
    /\ pc = "stitch"
    /\ stitchCalls = 1
    /\ halted
    /\ Len(sections) < Len(structure)

\* C9 witness of the other case: a job that flagged nothing reached the
\* assembler without a stitch call
C9_WitnessSkipped ==
    /\ pc = "assemble"
    /\ stitchCalls = 0
    /\ Len(sections) = Len(structure)

\* C10 as stated: in every reachable state the cache entry for an
\* instruction text equals the value first computed from that text,
\* including every section's word count.
C10_CachedParseUnchanged ==
    \A s \in DOMAIN parseCache : parseCache[s] = parseFresh(s)

\* C11: parsing is memoized by the verbatim instruction text.  A call with
\* a text that is in the cache returns the cached object and does not run
\* the matchers; a call with a new text runs them once and adds its entry;
\* no call removes an entry or touches the entry of another text, and the
\* entries are as many as the matcher runs, so none was ever set twice.
C11_ParseMemoized ==
    [][/\ \A s \in DOMAIN parseCache : s \in DOMAIN parseCache'
       /\ matcherRuns' = Cardinality(DOMAIN parseCache')
       /\ parseCalls' # parseCalls =>
             LET called == parseReturn'[1].from
             IN  /\ called \in DOMAIN parseCache'
                 /\ parseReturn'[1].value = parseCache'[called]
                 /\ \A s \in DOMAIN parseCache :
                       s # called => parseCache'[s] = parseCache[s]
                 /\ called \in DOMAIN parseCache =>
                       /\ matcherRuns' = matcherRuns
                       /\ DOMAIN parseCache' = DOMAIN parseCache
                       /\ (pc' = pc) => (parseCache' = parseCache)
                 /\ called \notin DOMAIN parseCache =>
                       matcherRuns' = matcherRuns + 1]_vars

\* C11 witness: of three calls, one was answered from the cache
C11_Witness ==
    /\ parseCalls = 3
    /\ matcherRuns = 2
    /\ Cardinality(DOMAIN parseCache) = 2

\* universalExpand has built the structure of the job
structureBuilt == pc = "skeleton"

\* the sections the parser found for the instruction text of the job, as
\* the parser computes them
parsedSections == parseFresh(request.customInstructions).structure

\* the word counts of the sections, added up
totalWords(struct) ==
    LET RECURSIVE upTo(_)
        upTo(k) == IF k = 0 THEN 0 ELSE upTo(k - 1) + struct[k].wordCount
    IN  upTo(Len(struct))

\* the distribution step had something to distribute: a section without a
\* count and a target above the counts given
distributionRan ==
    /\ \E k \in 1..Len(parsedSections) : parsedSections[k].wordCount = 0
    /\ resolvedTarget > totalWords(parsedSections)

\* C12 as stated: when the parsed structure is not empty, after the
\* distribution step the section word counts add up to the target word
\* count exactly, and no section is left with word count 0.  Stated for the
\* jobs in which the step has a remainder to distribute.
C12_AllocationSumsToTarget ==
    structureBuilt /\ parsedSections # <<>> /\ distributionRan =>
        /\ totalWords(structure) = resolvedTarget
        /\ \A k \in 1..Len(structure) : structure[k].wordCount # 0

\* C13: for every target of 50,000 words or more and an instruction text
\* without sections, the structure is Abstract, Introduction, twelve body
\* sections and Conclusion; the word counts add up to the target exactly;
\* eleven body sections get the same share and the twelfth takes what is
\* left of the body's words.
C13_LargeTableSumsToTarget ==
    structureBuilt /\ parsedSections = <<>> /\ resolvedTarget >= 50000 =>
        /\ Len(structure) = 15
        /\ structure[1].name = <<"ABSTRACT">>
        /\ structure[2].name = <<"INTRODUCTION">>
        /\ structure[15].name = <<"CONCLUSION">>
        /\ \A k \in 3..14 : structure[k].name \notin
              {<<"ABSTRACT">>, <<"INTRODUCTION">>, <<"CONCLUSION">>}
        /\ \A j, k \in 1..15 : j # k => structure[j].name # structure[k].name
        /\ totalWords(structure) = resolvedTarget
        /\ \A k \in 3..13 : structure[k].wordCount = structure[3].wordCount
        /\ structure[14].wordCount =
              resolvedTarget - structure[1].wordCount - structure[2].wordCount
              - structure[15].wordCount - 11 * structure[3].wordCount

\* C13 witness: a large table whose last body section took a remainder
C13_Witness ==
    /\ structureBuilt
    /\ parsedSections = <<>>
    /\ resolvedTarget >= 50000
    /\ Len(structure) = 15
    /\ structure[14].wordCount # structure[13].wordCount

\* the texts with an EXPAND TO N WORDS clause, and the N the first such
\* clause of a text states: "2.5k" states 2500
hasExpandClause(text) ==
    \E k \in 1..Len(text) : text[k].kind \in {"expand", "expandK"}

statedWords(text) ==
    LET k == CHOOSE j \in 1..Len(text) :
                 /\ text[j].kind \in {"expand", "expandK"}
                 /\ \A m \in 1..(j - 1) : text[m].kind \notin {"expand", "expandK"}
    IN  IF text[k].kind = "expandK" THEN text[k].words * 100 ELSE text[k].words

mentionsThesis(text) ==
    \E k \in 1..Len(text) : text[k] = Text("THESIS")

\* C14 as stated: for every instruction text with an EXPAND TO N WORDS
\* clause, whatever else it holds, the parsed targetWordCount is N, the k
\* shorthand being scaled by 1000.
C14_ExpandClauseGivesTarget ==
    \A text \in DOMAIN parseCache :
        hasExpandClause(text) => parseCache[text].targetWordCount = statedWords(text)

\* C14 amended: for every instruction text with an EXPAND TO N WORDS
\* clause in which N is at least 500 or which does not hold the word
\* THESIS, the parsed targetWordCount is N, the k shorthand being scaled by
\* 1000.
C14_ExpandClauseGivesTargetUnlessSmallThesis ==
    \A text \in DOMAIN parseCache :
        /\ hasExpandClause(text)
        /\ statedWords(text) >= 500 \/ ~ mentionsThesis(text)
        => parseCache[text].targetWordCount = statedWords(text)

\* C14 witness: a k-shorthand target and a target in a text that mentions
\* a thesis have been parsed
C14_Witness ==
    /\ I_kilo \in DOMAIN parseCache
    /\ parseCache[I_kilo].targetWordCount = 2500
    /\ I_thesis \in DOMAIN parseCache
    /\ parseCache[I_thesis].targetWordCount = 600

\* universalExpand has returned its result
jobReturned == pc = "done" /\ Len(result) = 1

\* the section headings in a text: the lines that are the name of a
\* section of the structure
headingsIn(text) ==
    LET lines == SplitLines(text)
    IN  Cardinality({k \in 1..Len(lines) :
                        \E j \in 1..Len(structure) : lines[k] = structure[j].name})

\* C15 as stated: the sectionsGenerated value of the result is the number
\* of sections that were generated and are in expandedText, also for a job
\* that the max-words ceiling halted.
C15_SectionsGeneratedCountsSections ==
    jobReturned =>
        /\ result[1].sectionsGenerated = Len(sections)
        /\ result[1].sectionsGenerated = headingsIn(result[1].expandedText)

\* the last element of a sequence that is not empty
lastOf(seq) == seq[Len(seq)]

\* C16 as stated: every complete event carries the total section count,
\* percent 100, and as total word count the cumulative word count of the
\* job, which is the totalWordCount of the last section_complete event.
C16_CompleteEventCarriesTotals ==
    \A k \in 1..Len(events) :
        events[k].type = "complete" =>
            /\ events[k].totalSections = Len(structure)
            /\ events[k].progress = 100
            /\ events[k].totalWordCount = cumulativeWordCount
            /\ sectionEvents # <<>>
            /\ events[k].totalWordCount = lastOf(sectionEvents).totalWordCount

\* the events that carry a percent value, in the order of their emission
percentEvents == SelectSeq(events, LAMBDA e : e.progress # NoNumber)

skeletonPercents == SelectSeq(percentEvents, LAMBDA e : e.type = "progress")

sectionPercents ==
    SelectSeq(percentEvents, LAMBDA e : e.type \in {"section_complete", "complete"})

nonDecreasing(evs) ==
    \A k \in 1..(Len(evs) - 1) : evs[k].progress <= evs[k + 1].progress

\* C17: the percents of the progress events of the skeleton stage never
\* decrease and lie in 0..45; the percents of the section_complete and
\* complete events never decrease and lie in 0..100; an emitted percent is
\* lower than the one emitted before it only where the first is of the
\* skeleton stage and the second of the section-generation stage.
C17_PercentMonotonicWithinStages ==
    /\ nonDecreasing(skeletonPercents)
    /\ \A k \in 1..Len(skeletonPercents) : skeletonPercents[k].progress \in 0..45
    /\ nonDecreasing(sectionPercents)
    /\ \A k \in 1..Len(sectionPercents) : sectionPercents[k].progress \in 0..100
    /\ \A k \in 1..(Len(percentEvents) - 1) :
           percentEvents[k + 1].progress < percentEvents[k].progress =>
               /\ percentEvents[k].type = "progress"
               /\ percentEvents[k + 1].type \in {"section_complete", "complete"}

\* a finished job on a three-chunk source whose first section_complete
\* event reports a percent below the 45 of the meta-skeleton event
C17_Witness ==
    /\ pc = "done"
    /\ Len(chunkSkeletons) = 3
    /\ Len(skeletonPercents) = 4
    /\ \E k \in 1..(Len(percentEvents) - 1) :
           /\ percentEvents[k].progress = 45
           /\ percentEvents[k + 1].progress < 45
    /\ percentEvents[Len(percentEvents)].progress = 100

\* C18: once a provider call of generateSection has failed while section i
\* was generated, the events hold no section_complete event for section i or
\* a later one and no complete event, no result is returned, and the job
\* takes no further step: nothing catches the failure or tries again.
C18_GenerationFailureRejects ==
    /\ [](pc = "failed" =>
             /\ result = <<>>
             /\ completeEvents = <<>>
             /\ \A k \in 1..Len(sectionEvents) : sectionEvents[k].sectionIndex < i
             /\ Len(sections) = i)
    /\ [][pc # "failed"]_vars

\* the call for the second section failed after the first section was
\* finished and reported
C18_Witness ==
    /\ pc = "failed"
    /\ i = 1
    /\ Len(sectionEvents) = 1
    /\ sectionEvents[1].sectionIndex = 0

\* the report and the answer of the k-th delta call
auditedSections == 1..Len(deltaAnswers)

\* the sentinel report of the catch block
isSentinel(report) ==
    /\ report.commitmentStatus = "EXTRACTION_FAILED"
    /\ report.newClaims = <<>>
    /\ report.termsUsed = <<>>
    /\ report.conflictsDetected = <<>>

\* the answer is the JSON object that the prompt asks for
asRequested(answer) ==
    /\ answer.parsed
    /\ answer.newClaims.isArray
    /\ answer.termsUsed.isArray
    /\ answer.conflictsDetected.isArray
    /\ answer.commitmentStatus \in {"COMPLIANT", "VIOLATION"}

\* the delta call raises nothing: the iteration ends with the report
\* collected and the loop at the next section
deltaCallReturns ==
    pc = "delta" =>
        /\ pc' = "loop"
        /\ i' = i + 1
        /\ Len(deltaReports') = Len(deltaReports) + 1

\* C19 as stated: every answer that is not the requested structure gives the
\* sentinel report, and the job goes on to the next section.
C19_UnparsableGivesSentinel ==
    /\ [](\A k \in auditedSections :
             ~ asRequested(deltaAnswers[k]) => isSentinel(deltaReports[k]))
    /\ [][deltaCallReturns]_vars

\* C19: every answer that cannot be parsed as JSON gives the report with
\* commitmentStatus EXTRACTION_FAILED and empty newClaims, termsUsed and
\* conflictsDetected; nothing is raised and the job goes on to the next
\* section.
C19_NoJsonGivesSentinel ==
    /\ [](\A k \in auditedSections :
             ~ deltaAnswers[k].parsed => isSentinel(deltaReports[k]))
    /\ [][deltaCallReturns]_vars

\* the answer for the first section held no JSON, and the second section
\* was generated and audited after it
C19_Witness ==
    /\ Len(deltaAnswers) = 2
    /\ ~ deltaAnswers[1].parsed
    /\ isSentinel(deltaReports[1])
    /\ Len(sections) = 2

\* C20: the commitmentStatus of every collected report is one of COMPLIANT,
\* VIOLATION, UNKNOWN, EXTRACTION_FAILED.
C20_StatusIsOneOfFour ==
    \A k \in 1..Len(deltaReports) :
        deltaReports[k].commitmentStatus \in
            {"COMPLIANT", "VIOLATION", "UNKNOWN", "EXTRACTION_FAILED"}

\* the reports collected so far stay as they were collected
reportsKept ==
    /\ Len(deltaReports') >= Len(deltaReports)
    /\ \A k \in 1..Len(deltaReports) : deltaReports'[k] = deltaReports[k]

\* a delta call is made only when a section has just been generated, one at
\* a time
oneAuditPerStep ==
    deltaAnswers' # deltaAnswers =>
        /\ pc = "delta"
        /\ Len(deltaAnswers') = Len(deltaAnswers) + 1
        /\ Len(sections') = Len(sections) + 1

\* C21: one delta call is made for each generated section, after the
\* section is generated and before the next one is started; at the head of
\* every iteration there are as many reports as generated sections; and a
\* collected report is never changed.
C21_OneAuditPerSection ==
    /\ [](pc \in {"loop", "gen", "delta"} =>
             /\ Len(deltaAnswers) = i
             /\ Len(deltaReports) = i
             /\ Len(sections) = i)
    /\ [](Len(deltaReports) = Len(sections) /\ Len(deltaAnswers) = Len(sections))
    /\ [](\A k \in 1..Len(deltaReports) :
             deltaReports[k].sectionName = structure[k].name)
    /\ [][reportsKept /\ oneAuditPerStep]_vars

\* the second section is being generated with the report of the first
\* collected, and that report flags a conflict
C21_Witness ==
    /\ pc = "gen"
    /\ i = 1
    /\ continuationAttempts > 0
    /\ Len(deltaReports) = 1
    /\ deltaReports[1].conflictsDetected # <<>>

\* C22: the skeleton of a job is created once and never changed, and it is
\* put into the prompt of every section-generation call, first or
\* continuation, expository or dialogue, and of every delta call.
C22_SkeletonInEveryPrompt ==
    /\ [](\A p \in prompts :
             p.call \in {"generateSection", "extractDeltaReport"} =>
                 /\ p.skeleton # "none"
                 /\ skeleton # <<>>)
    /\ [][skeleton # <<>> => skeleton' = skeleton]_vars

\* the calls of the stages that follow the two-tier skeleton stage
laterStagePrompts ==
    {p \in prompts : p.variant \in {"skeleton", "outline", "first", "continuation",
                                     "dialogue", "dialogue continuation"}}

\* C23: for a source of more than 50,000 words, the skeleton extraction,
\* the outline call and the section-generation calls take the meta-skeleton
\* and the chunk skeletons as their source: none of them is given the raw
\* source text.
C23_LaterStagesReadSkeletons ==
    twoTier => \A p \in laterStagePrompts : p.source # "rawText"

\* the fields that hold the structure of the document are all empty
structuredFieldsEmpty(sk) ==
    /\ sk.outline = <<>>
    /\ sk.keyTerms = <<>>
    /\ sk.asserts = <<>>
    /\ sk.rejects = <<>>
    /\ sk.assumes = <<>>
    /\ sk.entities = <<>>

\* C24: whatever the answer to the skeleton extraction is, extractSkeleton
\* returns a skeleton and raises nothing, and the job goes on to the outline
\* call; when the answer cannot be parsed, the outline, the key terms, the
\* three sets of the ledger and the entities are empty and raw is the text
\* of the answer.
C24_AnyAnswerGivesSkeleton ==
    [][SkeletonDone =>
          /\ pc' = "outline"
          /\ Len(skeleton') = 1
          /\ ~ skeletonAnswer.parsed =>
                 /\ structuredFieldsEmpty(skeleton'[1])
                 /\ skeleton'[1].raw = skeletonAnswer.responseText]_vars

refineAttempts == SelectSeq(callLog, LAMBDA e : e.operation = "refineChunk")

\* refineChunk returned after the loop ran out: no attempt gave enough words
ranOut ==
    /\ refinerPc = "returned"
    /\ \A k \in 1..Len(refineAttempts) : refineAttempts[k].outcome # "ok"

\* C25: refineChunk makes at most MAX_RETRIES attempts for a chunk; when
\* every attempt gave fewer than the minimum of words it does not fail but
\* returns a text that is not empty: the text of the last response if there
\* is one, else the chunk itself.
C25_BoundedRetryReturnsText ==
    /\ attempt <= MAX_RETRIES
    /\ Len(refineAttempts) = attempt
    /\ Len(refineAttempts) <= MAX_RETRIES
    /\ (/\ Len(refineAttempts) = MAX_RETRIES
        /\ \A k \in 1..MAX_RETRIES : refineAttempts[k].outcome = "too short"
        /\ refinerPc # "chunk") => refinerPc = "returned"
    /\ ranOut =>
          /\ Len(refineReturn) = 1
          /\ refineReturn[1] # <<>>
          /\ refineReturn[1] = IF refineResult # <<>> THEN refineResult ELSE chunkText

\* two attempts that gave a heading mark only: the chunk itself is returned
C25_Witness ==
    /\ ranOut
    /\ Len(refineAttempts) = MAX_RETRIES
    /\ \A k \in 1..MAX_RETRIES : refineAttempts[k].outcome = "too short"
    /\ refineResult = <<>>
    /\ refineReturn = <<chunkText>>

\* the selected provider is one the refiner knows, and its key is not set
credentialsMissing ==
    \/ provider = "anthropic" /\ "ANTHROPIC_API_KEY" \notin envKeys
    \/ provider = "openai" /\ "OPENAI_API_KEY" \notin envKeys

configurationErrors == SelectSeq(callLog, LAMBDA e : e.outcome = "not configured")

\* C26: with the credentials of the selected provider missing, the first
\* operation that needs the provider raises a configuration error to the
\* caller; no further attempt follows a configuration error, and no other
\* provider is called in its place.
C26_MissingCredentialsRaiseOnce ==
    credentialsMissing =>
        /\ callLog # <<>> => refinerPc = "thrown"
        /\ Len(configurationErrors) <= 1
        /\ \A k \in 1..Len(callLog) : callLog[k].used \in {provider, "none"}
\* the target T of the instructions "EXPAND TO T WORDS" of the job
statedTarget == request.customInstructions[1].words

\* the job runs on the stub provider, on instructions "EXPAND TO T WORDS"
exactProviderJob ==
    /\ stubWord # Null
    /\ request.customInstructions = <<Expand(statedTarget)>>

\* the job completes without raising, sectionsGenerated is 8, a section
\* whose target is at most 4000 took a single call, and the output word
\* count lies in [0.95 * T, 1.05 * T]
endToEndHolds ==
    /\ pc # "failed"
    /\ pc = "delta" /\ section.wordCount <= 4000 => continuationAttempts = 1
    /\ jobReturned =>
          /\ result[1].sectionsGenerated = 8
          /\ 20 * result[1].outputWordCount >= 19 * statedTarget
          /\ 20 * result[1].outputWordCount <= 21 * statedTarget

\* C27, as stated: with a provider that returns exactly the number of words
\* requested on every call, instructions "EXPAND TO T WORDS" with a
\* standard-table target T give a job that completes without raising, with
\* sectionsGenerated = 8, a single call for each section whose target is at
\* most 4000, and an output word count within [0.95 * T, 1.05 * T]
C27_ExactProviderEndToEnd ==
    exactProviderJob => endToEndHolds

\* C27, amended: the same for a standard-table target T of at least 439
C27_ExactProviderEndToEndFrom439 ==
    exactProviderJob /\ statedTarget >= 439 => endToEndHolds

\* a job with target 439 on the stub provider returned its eight sections
C27_Witness ==
    /\ exactProviderJob
    /\ statedTarget = 439
    /\ jobReturned
    /\ Len(sections) = 8
    /\ result[1].outputWordCount = 460
\* the propositions of the skeleton's rejects set that the kth generated
\* section asserts verbatim
rejectedIn(k) ==
    {skeleton[1].rejects[n] : n \in 1..Len(skeleton[1].rejects)} \cap
    {sections[k][j] : j \in 1..Len(sections[k])}

\* C30: whenever a generated section contains a sentence that verbatim
\* asserts a proposition of the skeleton's rejects set (any entry, at any
\* position), the delta report of that section lists the contradiction in
\* conflictsDetected
C30_RejectedAssertionIsReported ==
    \A k \in 1..Len(deltaReports) :
        \A r \in rejectedIn(k) :
            \E n \in 1..Len(deltaReports[k].conflictsDetected) :
                deltaReports[k].conflictsDetected[n] = r
\* parseExpansionInstructions returned from a call on a text of chapter
\* declarations
declarationsParsed ==
    /\ parseCalls > 0
    /\ parseReturn[1].from \in DeclarationTexts

\* the sections discovered in the text of the last call, in the order of
\* their discovery, and the structure the call returned
lastDiscovered == discovered(parseReturn[1].from)

lastStructure == parseReturn[1].value.structure

\* the discovered sections at the positions K, in their order
pick(found, K) ==
    LET at == SelectSeq([k \in 1..Len(found) |-> k], LAMBDA k : k \in K)
    IN  [j \in 1..Len(at) |-> found[at[j]]]

\* the two names have the same first 15 characters of normalized name
samePrefix(added, new) == first15(normalized(added)) = first15(normalized(new))

\* the upper-case name of the added section contains the first 15
\* characters of the normalized new name
containsStart(added, new) == includesText(normalized(added), first15(normalized(new)))

namesUnique(struct) ==
    \A a, b \in 1..Len(struct) : a # b => struct[a].name # struct[b].name

numeralValue ==
    ("I" :> "1") @@ ("II" :> "2") @@ ("IV" :> "4") @@ ("IX" :> "9") @@ ("XIV" :> "14")
        @@ ("XL" :> "40") @@ ("MCMXCIV" :> "1994")

statedCount ==
    ("2,000" :> 2000) @@ ("1k" :> 1000) @@ ("2.5k" :> 2500) @@ ("2000" :> 2000)
        @@ ("500" :> 500) @@ ("1,500" :> 1500) @@ ("300" :> 300)

\* the section "CHAPTER n: <title>" with the stated word count, for the
\* Roman declaration c
sectionOf(c) ==
    [name |-> <<"CHAPTER", numeralValue[c.num] \o ":", c.title>>,
     wordCount |-> statedCount[c.count]]

romanParsed ==
    /\ declarationsParsed
    /\ parseReturn[1].from \in RomanDeclarations

\* every declaration of the text has its section in the structure
declarationsFound ==
    \A k \in 1..Len(parseReturn[1].from) :
        \E n \in 1..Len(lastStructure) :
            lastStructure[n] = sectionOf(parseReturn[1].from[k])

\* C29: for every chapter declaration with a valid Roman numeral R, a title
\* and a parenthesized word count W, the parse yields a section named
\* "CHAPTER n: <title>", n the value of R, with wordCount W, and no second
\* section for the same declaration
C29_RomanDeclarationGivesOneSection ==
    romanParsed =>
        /\ declarationsFound
        /\ Len(lastStructure) = Len(parseReturn[1].from)
\* neither the instructions nor the request of the job give a target
noTargetGiven ==
    /\ parseFresh(request.customInstructions).targetWordCount = 0
    /\ request.targetWordCount = 0

\* C31: when neither the instructions nor the request give a target word
\* count, the target is 5000 words for a small input and 1.5 times the
\* input word count for a large input
C31_DefaultTarget ==
    structureBuilt /\ noTargetGiven =>
        \/ resolvedTarget = 5000
        \/ 2 * resolvedTarget = 3 * rawWordCount
\* generateSection is about to issue a provider request
requestDue ==
    /\ pc = "gen"
    /\ continueLoop(currentWordCount, section.wordCount, continuationAttempts)

\* C32: in generateSection every provider request asks for
\* min(T - accumulated words, 4000) words, an amount between 1 and 4000;
\* a section with target 0 issues no request at all
C32_RequestBetween1And4000 ==
    /\ requestDue =>
          /\ section.wordCount > 0
          /\ wordsToRequest(section.wordCount, currentWordCount) \in 1..4000
          /\ wordsToRequest(section.wordCount, currentWordCount) <=
                 section.wordCount - currentWordCount
    /\ pc \in {"gen", "delta"} /\ section.wordCount = 0 => continuationAttempts = 0

\* the second request for a section of more than 4000 words is due: the
\* first asked for 4000 words, this one asks for the 400 that remain
C32_Witness ==
    /\ requestDue
    /\ continuationAttempts = 1
    /\ currentWordCount = 4000
    /\ wordsToRequest(section.wordCount, currentWordCount) = 400

\* a section with target 0 returned without a request
C32_WitnessNoRequest ==
    /\ pc = "delta"
    /\ section.wordCount = 0
    /\ continuationAttempts = 0
\* the job is past its two-tier stage, if it has one: generateMetaSkeleton
\* returned, or the job never entered the stage
tiersPassed == pc \notin {"idle", "chunk", "chunkCall", "metaCall", "failed"}

\* ceil(W / 50000)
ceilChunks == (rawWordCount + 49999) \div 50000

\* the generateChunkSkeleton calls made so far
chunkCalls == SelectSeq(tierCalls, LAMBDA c : c.call = "generateChunkSkeleton")

\* the generateMetaSkeleton calls made so far
metaCalls == SelectSeq(tierCalls, LAMBDA c : c.call = "generateMetaSkeleton")

\* the chunks handed to the calls are cut as stated: all but the last of
\* 50,000 words, in order, together the words 0 .. W - 1 of the source
chunksAsStated ==
    /\ Len(chunkCalls) <= ceilChunks
    /\ \A k \in 1..Len(chunkCalls) :
          /\ chunkCalls[k].chunkIndex = k - 1
          /\ chunkCalls[k].chunk.from = IF k = 1 THEN 0 ELSE chunkCalls[k - 1].chunk.to
          /\ chunkCalls[k].chunk.to > chunkCalls[k].chunk.from
          /\ k < Len(chunkCalls) =>
                chunkCalls[k].chunk.to - chunkCalls[k].chunk.from = 50000
          /\ chunkCalls[k].chunk.to - chunkCalls[k].chunk.from <= 50000
          /\ k = ceilChunks => chunkCalls[k].chunk.to = rawWordCount

\* C33: the two-tier path is taken exactly when the source has more than
\* 50,000 words; it cuts ceil(W/50000) chunks, all but the last of 50,000
\* words and together the source's words, makes one chunk-skeleton call per
\* chunk in chunk order and then one meta-skeleton call that receives all
\* chunk skeletons in order
C33_TwoTierChunksAndCalls ==
    /\ rawWordCount <= 50000 => tierCalls = <<>> /\ pc \notin {"chunk", "chunkCall", "metaCall"}
    /\ chunksAsStated
    /\ Len(metaCalls) <= 1
    /\ tiersPassed /\ rawWordCount > 50000 =>
          /\ Len(chunkCalls) = ceilChunks
          /\ Len(tierCalls) = ceilChunks + 1
          /\ \A k \in 1..ceilChunks : tierCalls[k].call = "generateChunkSkeleton"
          /\ tierCalls[ceilChunks + 1].call = "generateMetaSkeleton"
          /\ tierCalls[ceilChunks + 1].chunkSkeletons = [k \in 1..ceilChunks |-> k - 1]
    /\ pc = "metaCall" => Len(metaCalls) = 1 /\ Len(chunkCalls) = ceilChunks
    /\ pc \in {"chunk", "chunkCall"} =>
          /\ metaCalls = <<>>
          /\ \A k \in 1..Len(chunkCalls) : chunkCalls[k].chunkIndex = k - 1

\* a source of 100,001 words went through the two-tier stage: three chunks,
\* the last of one word
C33_Witness ==
    /\ tiersPassed
    /\ rawWordCount = 100001
    /\ Len(tierCalls) = 4
    /\ tierCalls[3].chunk = [from |-> 100000, to |-> 100001]
\* the structure a job builds from its own inputs in a process that ran
\* no other job
ownStructure ==
    LET p == parseFresh(request.customInstructions)
    IN  buildStructure(p, resolveTarget(p.targetWordCount, request.targetWordCount,
                                        inputWordCount))

\* C34 as stated: jobs are independent of each other; the section
\* structure a job uses is determined by its own instructions, source and
\* requested target alone, whatever jobs ran earlier in the process
C34_JobsIndependent ==
    structureBuilt => structure = ownStructure
\* C35 as stated: every job that returns normally emits exactly one
\* `complete` event, and that event is the last event emitted
C35_OneCompleteEventLast ==
    jobReturned =>
        /\ Len(completeEvents) = 1
        /\ events[Len(events)].type = "complete"
        /\ \A k \in 1..(Len(events) - 1) : events[k].type # "complete"
outlineEvents == SelectSeq(events, LAMBDA e : e.type = "outline")

\* the sum of the wordCount values of the first n section_complete events
RECURSIVE sectionWordsUpTo(_)
sectionWordsUpTo(n) ==
    IF n = 0 THEN 0 ELSE sectionWordsUpTo(n - 1) + sectionEvents[n].wordCount

\* C36: in the event stream of one job the outline event is emitted once
\* and before any section_complete; the section_complete events carry the
\* sectionIndex values 0, 1, 2, ... and each carries as totalWordCount the
\* sum of the wordCount values of the section_complete events so far
C36_OutlineOnceSectionsInOrder ==
    /\ Len(outlineEvents) <= 1
    /\ \A k \in 1..Len(events) :
          events[k].type = "section_complete" =>
              \E j \in 1..(k - 1) : events[j].type = "outline"
    /\ pc \in {"loop", "gen", "delta", "stitch", "assemble", "done"} => Len(outlineEvents) = 1
    /\ \A k \in 1..Len(sectionEvents) :
          /\ sectionEvents[k].sectionIndex = k - 1
          /\ sectionEvents[k].totalWordCount = sectionWordsUpTo(k)
    /\ Len(sectionEvents) = Len(sections)

\* a job returned after two sections of one word or more
C36_Witness ==
    /\ jobReturned
    /\ Len(sectionEvents) = 2
    /\ sectionEvents[1].wordCount > 0
    /\ sectionEvents[2].wordCount > 1
    /\ sectionEvents[2].totalWordCount > sectionEvents[2].wordCount
-----------------------------------------------------------------------------
(* StreamingOutputModal and the page that opens it                         *)

\* the jobs one mounted page starts
MaxJobs == 2

\* the text pieces the modal shows before the server stops sending sections
MaxShown == 2

\* the project of another job whose messages come over the same endpoint
OtherProject == MaxJobs + 1

\* the values of projectId in a message; 0: the message carries none
MessageProjects == 0..OtherProject

\* the StreamChunk messages of the server, one of each type per project
StreamChunks ==
    UNION {{[type |-> "progress", projectId |-> p, sectionTitle |-> "Section",
             chunkText |-> <<>>, sectionIndex |-> NoNumber, totalChunks |-> 0,
             progress |-> 50, totalWordCount |-> NoNumber],
            [type |-> "outline", projectId |-> p, sectionTitle |-> "",
             chunkText |-> <<"outline">>, sectionIndex |-> NoNumber, totalChunks |-> 2,
             progress |-> NoNumber, totalWordCount |-> NoNumber],
            [type |-> "section_complete", projectId |-> p, sectionTitle |-> "Section",
             chunkText |-> <<"text">>, sectionIndex |-> 0, totalChunks |-> 2,
             progress |-> 50, totalWordCount |-> 1],
            [type |-> "complete", projectId |-> p, sectionTitle |-> "",
             chunkText |-> <<>>, sectionIndex |-> NoNumber, totalChunks |-> 0,
             progress |-> NoNumber, totalWordCount |-> 3],
            [type |-> "error", projectId |-> p, sectionTitle |-> "",
             chunkText |-> <<>>, sectionIndex |-> NoNumber, totalChunks |-> 0,
             progress |-> NoNumber, totalWordCount |-> NoNumber]} : p \in MessageProjects}

\* what GET /api/reconstruction/:pid answers
PollAnswers ==
    {[ok |-> FALSE, status |-> "processing", reconstructedText |-> <<>>],
     [ok |-> TRUE, status |-> "completed", reconstructedText |-> <<"text", "text", "text">>],
     [ok |-> TRUE, status |-> "failed", reconstructedText |-> <<>>],
     [ok |-> TRUE, status |-> "processing", reconstructedText |-> <<"text", "text">>],
     [ok |-> TRUE, status |-> "processing", reconstructedText |-> <<>>]}

\* clearContent
clearContent(m) ==
    [m EXCEPT !.content = <<>>, !.wordCount = 0, !.progress = 0,
              !.currentSection = "Connecting...", !.sectionsCompleted = 0,
              !.totalSections = 0, !.isCompleteRef = FALSE]

\* markFailed
markFailed(m) ==
    [m EXCEPT !.isCompleteRef = TRUE, !.progress = 0, !.currentSection = "Error",
              !.pollFallbackRef = FALSE,
              !.ws = IF @ = "open" THEN "closed" ELSE @,
              !.toasts = @ + 1]

\* markComplete(totalWords), the argument written total
markComplete(m, total) ==
    [m EXCEPT !.isCompleteRef = TRUE, !.progress = 100,
              !.currentSection = "Generation complete!",
              !.pollFallbackRef = FALSE,
              !.wordCount = IF total # NoNumber THEN total ELSE @,
              !.toasts = @ + 1]

\* the connection effect, run with the props of m: the two early returns,
\* the reset of a new job, new WebSocket(wsUrl)
connect(m) ==
    IF ~ m.isOpen \/ m.isCompleteRef
    THEN [m EXCEPT !.cleanup = FALSE]
    ELSE LET cleared == IF m.startNew /\ ~ m.hasStartedRef
                        THEN [clearContent(m) EXCEPT !.hasStartedRef = TRUE]
                        ELSE m
         IN  [cleared EXCEPT !.currentSection = "Connecting...", !.ws = "connecting",
                             !.sockets = @ + 1, !.cleanup = TRUE]

\* the cleanup of the connection effect: ws.close(), stopPolling()
disconnect(m) ==
    IF m.cleanup
    THEN [m EXCEPT !.ws = IF @ \in {"open", "connecting"} THEN "closed" ELSE @,
                   !.pollFallbackRef = FALSE]
    ELSE m

\* the startNew effect
resetStarted(m) ==
    IF ~ m.startNew THEN [m EXCEPT !.hasStartedRef = FALSE] ELSE m

\* data.projectId && projectIdRef.current && data.projectId !== projectIdRef.current
foreign(m, data) ==
    data.projectId # 0 /\ m.projectIdRef # 0 /\ data.projectId # m.projectIdRef

\* ws.onmessage
onmessage(m, data) ==
    IF m.isCompleteRef \/ foreign(m, data) THEN m
    ELSE CASE data.type = "progress" ->
                [m EXCEPT !.currentSection = IF data.sectionTitle # "" THEN data.sectionTitle ELSE @,
                          !.progress = IF data.progress # NoNumber THEN data.progress ELSE @]
           [] data.type = "outline" ->
                [m EXCEPT !.currentSection = "Skeleton/outline generated, starting sections...",
                          !.totalSections = IF data.totalChunks # 0 THEN data.totalChunks ELSE @,
                          !.content = IF data.chunkText # <<>>
                                      THEN <<"=== DOCUMENT SKELETON ===">> \o data.chunkText
                                           \o <<"=== GENERATING SECTIONS ===">>
                                      ELSE @]
           [] data.type = "section_complete" ->
                [m EXCEPT !.content = @ \o data.chunkText,
                          !.currentSection = IF data.sectionTitle # "" THEN "Completed" ELSE @,
                          !.sectionsCompleted = IF data.sectionIndex # NoNumber
                                                THEN data.sectionIndex + 1 ELSE @,
                          !.totalSections = IF data.totalChunks # 0 THEN data.totalChunks ELSE @,
                          !.progress = IF data.progress # NoNumber THEN data.progress ELSE @,
                          !.wordCount = IF data.totalWordCount # NoNumber
                                        THEN data.totalWordCount ELSE @]
           [] data.type = "complete" -> markComplete(m, data.totalWordCount)
           [] OTHER -> markFailed(m)

\* the polling callback after its fetch returned proj
pollResponse(m, proj) ==
    LET wc == Len(proj.reconstructedText)
    IN  IF ~ proj.ok THEN m
        ELSE IF proj.status = "completed" /\ proj.reconstructedText # <<>>
        THEN markComplete([m EXCEPT !.wordCount = wc,
                                    !.content = IF @ = <<>> THEN proj.reconstructedText ELSE @],
                          wc)
        ELSE IF proj.status = "failed" THEN markFailed(m)
        ELSE IF proj.status = "processing" /\ proj.reconstructedText # <<>>
        THEN [m EXCEPT !.wordCount = wc, !.currentSection = "Processing...",
                       !.content = IF Len(@) < wc THEN proj.reconstructedText ELSE @]
        ELSE [m EXCEPT !.currentSection = "Processing... (waiting for streaming data)",
                       !.progress = Min({@ + 2, 15})]

pipelineVars == <<parseCache, request, pc, structure, loopVars, genVars, stitchVars, events,
                  result, parseVars, tierVars, skeletonVars, prompts, refinerVars>>

\* handleDissertate: the modal is opened for a new job and the start request
\* is sent; the effects run with the new props
OpenNew ==
    /\ ~ modal.isOpen
    /\ modal.jobs < MaxJobs
    /\ modal' = resetStarted(connect([modal EXCEPT !.isOpen = TRUE, !.startNew = TRUE,
                                                   !.jobs = @ + 1, !.startPending = TRUE]))
    /\ UNCHANGED pipelineVars

\* the start request returned: setProjectId(project.id), then the
\* projectIdRef effect
StartReturned ==
    /\ modal.startPending
    /\ modal' = [modal EXCEPT !.startPending = FALSE, !.projectId = modal.jobs,
                              !.projectIdRef = modal.jobs]
    /\ UNCHANGED pipelineVars

\* the page's own poll saw the job end: setProjectId(null)
PageProjectCleared ==
    /\ modal.projectId # 0
    /\ ~ modal.startPending
    /\ modal' = [modal EXCEPT !.projectId = 0, !.projectIdRef = 0]
    /\ UNCHANGED pipelineVars

\* handleClose and onClose, then the cleanup and the effects with the new props
Close ==
    /\ modal.isOpen
    /\ modal' = resetStarted(connect([disconnect(modal) EXCEPT !.isOpen = FALSE,
                                                               !.startNew = FALSE]))
    /\ UNCHANGED pipelineVars

\* ws.onopen
WsOpen ==
    /\ modal.ws = "connecting"
    /\ modal' = [modal EXCEPT !.ws = "open", !.pollTimer = TRUE,
                              !.currentSection = IF modal.isCompleteRef THEN @
                                                 ELSE "Waiting for generation to start..."]
    /\ UNCHANGED pipelineVars

\* the timeout of ws.onopen fired: startPollingFallback
StartPollingFallback ==
    /\ modal.pollTimer
    /\ modal' = [modal EXCEPT !.pollTimer = FALSE,
                              !.pollFallbackRef = @ \/ ~ modal.isCompleteRef]
    /\ UNCHANGED pipelineVars

\* a message arrived on the open socket
WsMessage ==
    /\ modal.ws = "open"
    /\ Len(modal.content) <= MaxShown
    /\ \E data \in StreamChunks : modal' = onmessage(modal, data)
    /\ UNCHANGED pipelineVars

\* the interval fired: the callback up to its fetch
PollTick ==
    /\ modal.pollFallbackRef
    /\ modal.pollInFlight = 0
    /\ modal.isCompleteRef \/ modal.projectIdRef # 0
    /\ modal' = IF modal.isCompleteRef
                THEN [modal EXCEPT !.pollFallbackRef = FALSE]
                ELSE [modal EXCEPT !.pollInFlight = modal.projectIdRef]
    /\ UNCHANGED pipelineVars

\* the fetch of the polling callback returned
PollResponse ==
    /\ modal.pollInFlight # 0
    /\ \E proj \in PollAnswers :
         modal' = [pollResponse(modal, proj) EXCEPT !.pollInFlight = 0]
    /\ UNCHANGED pipelineVars

\* the page with the modal mounted and no job run yet
InitModal ==
    /\ parseCache = <<>>
    /\ request \in {[customInstructions |-> I_none, targetWordCount |-> 0,
                      maxWords |-> 0]}
    /\ pc = "idle"
    /\ structure = <<>>
    /\ i = 0
    /\ sections = <<>>
    /\ previousSections = <<>>
    /\ cumulativeWordCount = 0
    /\ pointsCoveredSoFar = <<>>
    /\ deltaReports = <<>>
    /\ deltaAnswers = <<>>
    /\ halted = FALSE
    /\ accumulatedContent = <<>>
    /\ currentWordCount = 0
    /\ continuationAttempts = 0
    /\ stopReason = Null
    /\ sectionContent = <<>>
    /\ stitchCalls = 0
    /\ repairs = <<>>
    /\ repairSteps = <<>>
    /\ stitchOutcome = Null
    /\ events = <<>>
    /\ result = <<>>
    /\ resolvedTarget = 0
    /\ parseReturn = <<>>
    /\ matcherRuns = 0
    /\ parseCalls = 0
    /\ rawWordCount = SourceWords
    /\ chunkSkeletons = <<>>
    /\ tierCalls = <<>>
    /\ skeletonAnswer = SoundSkeleton
    /\ stubWord = Null
    /\ skeleton = <<>>
    /\ prompts = {}
    /\ RefinerIdle
    /\ modal = ModalClosed

NextModal ==
    \/ OpenNew
    \/ StartReturned
    \/ PageProjectCleared
    \/ Close
    \/ WsOpen
    \/ StartPollingFallback
    \/ WsMessage
    \/ PollTick
    \/ PollResponse

SpecModal == InitModal /\ [][NextModal]_vars
\* what the modal displays of a job, and its completion state
shown(m) ==
    <<m.content, m.wordCount, m.progress, m.currentSection, m.sectionsCompleted,
      m.totalSections, m.isCompleteRef>>

\* the step opens the modal with startNew = true for a new job
openedForNewJob ==
    /\ ~ modal.isOpen
    /\ modal'.isOpen
    /\ modal'.startNew
    /\ modal'.jobs = modal.jobs + 1

\* C37 as stated: every time the modal is opened with startNew = true for a
\* new job, also after an earlier job of the mounted component ended and
\* the modal was closed, the content, progress, counters and completion
\* flag are cleared and a new WebSocket connection is opened
C37_NewJobClearsAndConnects ==
    [][openedForNewJob =>
          /\ modal'.content = <<>>
          /\ modal'.progress = 0
          /\ modal'.wordCount = 0
          /\ modal'.sectionsCompleted = 0
          /\ modal'.totalSections = 0
          /\ ~ modal'.isCompleteRef
          /\ modal'.sockets = modal.sockets + 1
          /\ modal'.ws = "connecting"]_vars

\* C38 as stated: once a complete or error has been processed, no later
\* WebSocket message and no polling response of the same job changes the
\* displayed content, word count, progress or status, and the completion
\* handling does not run again
C38_TerminalStateAbsorbing ==
    [][modal.isCompleteRef /\ modal'.jobs = modal.jobs =>
          /\ shown(modal') = shown(modal)
          /\ modal'.toasts = modal.toasts]_vars

\* C39 as stated: while the modal is open for a job, a WebSocket message
\* that carries the project id of another job changes nothing of the
\* modal's content, progress or completion state
C39_OnlyOwnJobShown ==
    [][\A data \in StreamChunks :
          /\ modal.isOpen
          /\ modal.ws = "open"
          /\ data.projectId \notin {0, modal.jobs}
          /\ modal' = onmessage(modal, data)
          => shown(modal') = shown(modal)]_vars

====
